---------------------------- MODULE Spec2Model ----------------------------
(***************************************************************************)
(* A model of the md2d molecular-dynamics engine                           *)
(* (src/src/lab/md2d/models/engine/md2d.js, exports.createEngine).         *)
(*                                                                         *)
(* Numbers are integers.  Lengths are in whole nanometres, masses in whole *)
(* Daltons, velocities in nm/fs, and the inputs are drawn so that every    *)
(* division the code performs on them is exact.  Two factors of the code   *)
(* are not integers and are stored scaled:                                 *)
(*   cutoffList = 2.5       is CutoffList2 = 5 = 2 * cutoffList,           *)
(*   radius     = sigma / 2 needs an even sigma.                           *)
(* A container or scalar that is still "undefined" is the empty tuple; a   *)
(* scalar that may be undefined holds <<v>> once it is set.  Infinity and  *)
(* NaN are two integers no computation of the model reaches.               *)
(***************************************************************************)
EXTENDS Integers, Sequences, FiniteSets, TLC

\* ------------------------------------------------------------------ bounds
\* Most atoms the model adds (addAtom is disabled beyond it).
MaxAtoms == 3
\* Most elements the model declares.
MaxElements == 2
\* Most radial bonds the model adds.
MaxRadialBonds == 3
\* Most obstacles the model adds.
MaxObstacles == 2
\* Model time after which integrate is no longer called.
MaxTime == 2
\* Most calls of the public API in one behaviour.
MaxOps == 9
\* Most calls in one behaviour of the specifications of atoms and elements
\* and of snapshots.
MaxAtomsOps == 6
\* Most calls in one behaviour of the specification of walls and obstacles.
MaxStepOps == 7

\* ------------------------------------------------------- program constants
N_MIN == 1
N_MAX == 1000
\* cutoff for force calculations, as a factor of sigma
cutoff == 2
\* twice the cutoff for neighbor list calculations (cutoffList = 2.5)
CutoffList2 == 5
\* the default side of the (square) domain, size = [10, 10]
DefaultSize == 10
\* chunk by which addAtom grows the atom arrays
AtomsChunk == 10

Undefined == << >>
Infinity == 1000000
NaN == -1000000

AtomIdx == 0 .. (MaxAtoms - 1)
ElemIdx == 0 .. (MaxElements - 1)
BondIdx == 0 .. (MaxRadialBonds - 1)
ObstIdx == 0 .. (MaxObstacles - 1)

VARIABLES
  \* setup flags (md2d.js 141-148)
  sizeHasBeenInitialized, atomsHaveBeenCreated, elementsHaveBeenCreated,
  \* toggles and scalars (md2d.js 150-197)
  useCoulombInteraction, hasChargedAtoms, chargedAtomsList,
  useLennardJonesInteraction, useThermostat, gravitationalField,
  temperatureChangeInProgress, T_target, T_windowed, size, viscosity, time, N,
  \* the atoms container and the length of its arrays
  atoms, atomsLength,
  \* the elements container, the length of its arrays, and the pair tables
  elements, elementsLength, N_elements, elementUsed,
  cutoffDistance_LJ_sq, cutoffNeighborListSquared,
  \* radial bonds
  radialBonds, radialBondMatrix, N_radialBonds,
  \* angular bonds: their arrays and their number
  angularBonds, N_angularBonds,
  \* obstacles and the pressure buffers of their probes
  obstacles, N_obstacles, pressureBuffers,
  \* optimisation structures
  cellList, neighborList, updateNeighborList,
  \* what the last acceleration computation added: the pairs that received
  \* a Lennard-Jones, respectively a Coulomb, contribution
  ljForcePairs, coulombForcePairs,
  \* the state a caller cloned from the handles of getState
  snapshot,
  \* the results rows of the radial bonds, and the state object that the
  \* caller of computeOutputState passed in
  radialBondResults, outputState,
  \* the spring forces: their arrays, the length of the arrays, their number
  springForces, springForcesLength, N_springForces,
  \* the springs that were added by addSpringForce and not removed since,
  \* each with the index addSpringForce returned for it
  liveSprings,
  \* the scratch state of getMoleculeAtoms
  atomsInMolecule, depth,
  \* the argument and the value returned of the last call that returns a
  \* value
  returned,
  \* the error the last public call raised ("none" when it returned), the
  \* name of that call, and the number of calls so far
  error, lastCall, ops

flagVars == <<sizeHasBeenInitialized, atomsHaveBeenCreated, elementsHaveBeenCreated>>
thermoVars == <<useThermostat, temperatureChangeInProgress, T_target, T_windowed>>
toggleVars == <<useCoulombInteraction, useLennardJonesInteraction, gravitationalField,
                viscosity, thermoVars>>
chargeVars == <<hasChargedAtoms, chargedAtomsList>>
atomVars == <<N, atoms, atomsLength>>
elementVars == <<elements, elementsLength, N_elements,
                 cutoffDistance_LJ_sq, cutoffNeighborListSquared>>
angularVars == <<angularBonds, N_angularBonds>>
bondVars == <<radialBonds, radialBondMatrix, N_radialBonds, angularVars>>
obstacleVars == <<obstacles, N_obstacles, pressureBuffers>>
listVars == <<cellList, neighborList, updateNeighborList>>
forceVars == <<ljForcePairs, coulombForcePairs>>
springVars == <<springForces, springForcesLength, N_springForces, liveSprings>>
moleculeVars == <<atomsInMolecule, depth>>
\* what only the calls about bond results, output state, springs and
\* molecules write
extVars == <<radialBondResults, outputState, springVars, moleculeVars, returned>>

vars == <<flagVars, toggleVars, chargeVars, atomVars, elementVars, elementUsed,
          bondVars, obstacleVars, listVars, forceVars, size, time, snapshot,
          extVars, error, lastCall, ops>>

\* ----------------------------------------------------------------- helpers
Abs(a) == IF a < 0 THEN -a ELSE a
Min(a, b) == IF a < b THEN a ELSE b
Max(a, b) == IF a > b THEN a ELSE b
Has(props, key) == key \in DOMAIN props
\* arrays.create(num, 0, type), restricted to the indices the model uses
ZeroArray(S) == [i \in S |-> 0]
\* for (key in props) container[key][i] = props[key]
SetProps(container, i, props) ==
  [key \in DOMAIN container |->
     IF key \in DOMAIN props
       THEN [container[key] EXCEPT ![i] = props[key]]
       ELSE container[key]]
\* props with (or with another value for) key
With(props, key, val) ==
  [k \in (DOMAIN props) \cup {key} |-> IF k = key THEN val ELSE props[k]]
\* the end of a call of the public API: the error it raised, or "none"
Ended(call, e) == ops < MaxOps /\ error' = e /\ lastCall' = call /\ ops' = ops + 1
\* the end of a call that writes nothing of extVars
Returned(call) == Ended(call, "none") /\ UNCHANGED extVars
Threw(call, e) == Ended(call, e) /\ UNCHANGED extVars
\* a record with the fields of props added or overwritten
Merge(rec, props) ==
  [k \in (DOMAIN rec) \cup (DOMAIN props) |->
     IF k \in DOMAIN props THEN props[k] ELSE rec[k]]

\* lennardJones.radius(sigma) and lennardJones.pairwiseSigma(si, sj)
ljRadius(s) == s \div 2
pairwiseSigma(si, sj) == (si + sj) \div 2

\* ------------------------------------------------------------------- Init
AtomFields == {"radius", "px", "py", "x", "y", "vx", "vy", "ax", "ay",
               "charge", "friction", "element", "pinned", "mass"}
ElementFields == {"mass", "epsilon", "sigma", "radius"}

Init ==
  /\ sizeHasBeenInitialized = FALSE
  /\ atomsHaveBeenCreated = FALSE
  /\ elementsHaveBeenCreated = FALSE
  /\ useCoulombInteraction = FALSE
  /\ hasChargedAtoms = FALSE
  /\ chargedAtomsList = << >>
  /\ useLennardJonesInteraction = TRUE
  /\ useThermostat = FALSE
  /\ gravitationalField = 0
  /\ temperatureChangeInProgress = FALSE
  /\ T_target = Undefined
  /\ T_windowed = [sum |-> 0, count |-> 0]
  /\ size = <<DefaultSize, DefaultSize>>
  /\ viscosity = Undefined
  /\ time = 0
  /\ N = 0
  /\ atoms = Undefined
  /\ atomsLength = 0
  /\ elements = Undefined
  /\ elementsLength = 0
  /\ N_elements = 0
  /\ elementUsed = [e \in ElemIdx |-> FALSE]
  /\ cutoffDistance_LJ_sq = [e \in ElemIdx |-> [f \in ElemIdx |-> 0]]
  /\ cutoffNeighborListSquared = [e \in ElemIdx |-> [f \in ElemIdx |-> 0]]
  /\ radialBonds = Undefined
  /\ radialBondMatrix = Undefined
  /\ N_radialBonds = 0
  /\ angularBonds = Undefined
  /\ N_angularBonds = 0
  /\ obstacles = Undefined
  /\ N_obstacles = 0
  /\ pressureBuffers = [obstaclesNum |-> 0, duration |-> 0]
  /\ cellList = Undefined
  /\ neighborList = Undefined
  /\ updateNeighborList = FALSE
  /\ ljForcePairs = {}
  /\ coulombForcePairs = {}
  /\ snapshot = Undefined
  /\ radialBondResults = Undefined
  /\ outputState = Undefined
  /\ springForces = Undefined
  /\ springForcesLength = 0
  /\ N_springForces = 0
  /\ liveSprings = {}
  /\ atomsInMolecule = << >>
  /\ depth = 0
  /\ returned = Undefined
  /\ error = "none"
  /\ lastCall = "createEngine"
  /\ ops = 0


\* ------------------------------------------------------ element pair tables
\* setPairwiseLJProperties(i, j): the two cutoffs of the pair, both ways.
\* cutoffNeighborListSquared is stored times 4: (2 * cutoffList * s)^2.
PairLJCutoffSq(els, i, j) ==
  LET s == pairwiseSigma(els.sigma[i], els.sigma[j]) IN (cutoff * s) * (cutoff * s)

PairListCutoffSq4(els, i, j) ==
  LET s == pairwiseSigma(els.sigma[i], els.sigma[j]) IN (CutoffList2 * s) * (CutoffList2 * s)

setPairwiseLJProperties(table, i, j, val) ==
  [a \in ElemIdx |-> [b \in ElemIdx |->
     IF (a = i /\ b = j) \/ (a = j /\ b = i) THEN val ELSE table[a][b]]]

\* the pairs (i, j) of used elements, j <= i
UsedPairs(used, n) ==
  {p \in (0 .. (n - 1)) \X (0 .. (n - 1)) : p[2] <= p[1] /\ used[p[1]] /\ used[p[2]]}

RECURSIVE SetMax(_)
SetMax(S) == IF S = {} THEN 0
             ELSE LET a == CHOOSE a \in S : TRUE IN Max(a, SetMax(S \ {a}))

RECURSIVE SetMin(_)
SetMin(S) == IF S = {} THEN Infinity
             ELSE LET a == CHOOSE a \in S : TRUE
                      m == SetMin(S \ {a})
                  IN IF m = Infinity THEN a ELSE Min(a, m)

\* computeMaxCutoff(), times 2: max of 2 * cutoffList * sigma over used pairs
computeMaxCutoff2(els, used, n) ==
  SetMax({CutoffList2 * pairwiseSigma(els.sigma[p[1]], els.sigma[p[2]]) :
            p \in UsedPairs(used, n)})

\* computeNeighborListMaxDisplacement(), times 2:
\* min of 2 * (cutoffList - cutoff) * sigma over used pairs, Infinity if none
computeNeighborListMaxDisplacement2(els, used, n) ==
  SetMin({(CutoffList2 - 2 * cutoff) * pairwiseSigma(els.sigma[p[1]], els.sigma[p[2]]) :
            p \in UsedPairs(used, n)})

\* ------------------------------------------------- cell list, neighbor list
CeilDiv(a, b) == (a + b - 1) \div b
\* the cell of an atom that was put in no cell
NoCell == -1

\* CellList(width, height, cellSize) and cellList.reinitialize(cellSize):
\* a grid of cells of side cellSize (kept times 2 in cellSize2), all empty.
NewCellList(sz, cellSize2) ==
  [cellSize2 |-> cellSize2,
   cols |-> IF cellSize2 = 0 THEN 0 ELSE CeilDiv(2 * sz[1], cellSize2),
   rows |-> IF cellSize2 = 0 THEN 0 ELSE CeilDiv(2 * sz[2], cellSize2),
   cell |-> [i \in AtomIdx |-> NoCell]]

\* initializeCellList()
initializeCellList(cl, sz, els, used, n) ==
  LET c == computeMaxCutoff2(els, used, n) IN
  IF cl = Undefined THEN NewCellList(sz, c)
  ELSE IF cl.cellSize2 = c THEN cl
  ELSE NewCellList(sz, c)

\* NeighborList(N, maxDisplacement) and neighborList.reinitialize(N, maxDisplacement):
\* the saved positions and the marked pairs of the atoms it already held are kept.
initializeNeighborList(nl, n, els, used, ne) ==
  LET d == computeNeighborListMaxDisplacement2(els, used, ne) IN
  IF nl = Undefined
    THEN [atomsNum |-> n, maxDisplacement2 |-> d,
          x |-> ZeroArray(AtomIdx), y |-> ZeroArray(AtomIdx), list |-> {}]
    ELSE [nl EXCEPT !.atomsNum = n, !.maxDisplacement2 = d]

\* ------------------------------------------------------------------ setup
\* setSize(v)
SetSize(v) ==
  /\ IF sizeHasBeenInitialized
       THEN /\ Threw("setSize", "size already set")
            /\ UNCHANGED size
       ELSE /\ size' = <<IF v[1] > 0 THEN v[1] ELSE DefaultSize,
                         IF v[2] > 0 THEN v[2] ELSE DefaultSize>>
            /\ Returned("setSize")
  /\ UNCHANGED <<flagVars, toggleVars, chargeVars, atomVars, elementVars, elementUsed,
                 bondVars, obstacleVars, listVars, forceVars, time, snapshot>>

\* createElementsArray(num)
createElementsArray == [f \in ElementFields |-> ZeroArray(ElemIdx)]

\* The body of addElement(props) once the table has room: element n is
\* recorded with its pair coefficients against elements 0 .. n.
\* st is [elements, lj, nlsq]; the result has the same shape.
RECURSIVE PairLoop(_, _, _, _)
PairLoop(st, i, j, last) ==
  IF j > last THEN st
  ELSE PairLoop(
         [st EXCEPT
            !.lj = setPairwiseLJProperties(st.lj, i, j, PairLJCutoffSq(st.elements, i, j)),
            !.nlsq = setPairwiseLJProperties(st.nlsq, i, j, PairListCutoffSq4(st.elements, i, j))],
         i, j + 1, last)

addElementBody(st, n, props) ==
  LET els == [st.elements EXCEPT
                !.mass[n] = props.mass,
                !.epsilon[n] = props.epsilon,
                !.sigma[n] = props.sigma,
                !.radius[n] = ljRadius(props.sigma)]
      cleared == [st EXCEPT
                    !.elements = els,
                    !.lj[n] = [f \in ElemIdx |-> 0],
                    !.nlsq[n] = [f \in ElemIdx |-> 0]]
  IN PairLoop(cleared, n, 0, n)

\* addElement(props)
AddElement(props) ==
  /\ IF elements = Undefined
       THEN \* elementEpsilon is undefined: reading its length throws
            /\ Threw("addElement", "TypeError")
            /\ UNCHANGED <<elementVars, elementsHaveBeenCreated>>
       ELSE IF N_elements >= elementsLength
       THEN \* the arrays of the container are extended, then
            \* assignShortcutReferences.N_elements is not a function
            /\ Threw("addElement", "TypeError")
            /\ UNCHANGED <<elementVars, elementsHaveBeenCreated>>
       ELSE LET st == addElementBody([elements |-> elements, lj |-> cutoffDistance_LJ_sq,
                                      nlsq |-> cutoffNeighborListSquared],
                                     N_elements, props)
            IN /\ elements' = st.elements
               /\ cutoffDistance_LJ_sq' = st.lj
               /\ cutoffNeighborListSquared' = st.nlsq
               /\ N_elements' = N_elements + 1
               /\ elementsHaveBeenCreated' = TRUE
               /\ UNCHANGED elementsLength
               /\ Returned("addElement")
  /\ UNCHANGED <<sizeHasBeenInitialized, atomsHaveBeenCreated, toggleVars, chargeVars,
                 atomVars, elementUsed, bondVars, obstacleVars, listVars, forceVars,
                 size, time, snapshot>>

\* initializeElements(elems): a fresh table of elems.length entries, then
\* addElement for each.  The model calls it on an engine without elements.
RECURSIVE AddElements(_, _, _)
AddElements(st, n, elems) ==
  IF elems = << >> THEN st
  ELSE AddElements(addElementBody(st, n, Head(elems)), n + 1, Tail(elems))

InitializeElements(elems) ==
  /\ N_elements = 0
  /\ LET st == AddElements([elements |-> createElementsArray, lj |-> cutoffDistance_LJ_sq,
                            nlsq |-> cutoffNeighborListSquared],
                           N_elements, elems)
     IN /\ elements' = st.elements
        /\ cutoffDistance_LJ_sq' = st.lj
        /\ cutoffNeighborListSquared' = st.nlsq
  /\ elementsLength' = Len(elems)
  /\ N_elements' = N_elements + Len(elems)
  /\ elementsHaveBeenCreated' = TRUE
  /\ Returned("initializeElements")
  /\ UNCHANGED <<sizeHasBeenInitialized, atomsHaveBeenCreated, toggleVars, chargeVars,
                 atomVars, elementUsed, bondVars, obstacleVars, listVars, forceVars,
                 size, time, snapshot>>

\* createAtomsArray(num); num is Undefined or <<v>>, and v is a number given
\* as [floor |-> its integral part, integral |-> whether that is all of it]
CreateAtomsArray(num) ==
  /\ IF ~elementsHaveBeenCreated
       THEN /\ Threw("createAtomsArray", "createAtoms before setElements")
            /\ UNCHANGED <<flagVars, atomVars>>
     ELSE IF atomsHaveBeenCreated
       THEN /\ Threw("createAtomsArray", "atoms already created")
            /\ UNCHANGED <<flagVars, atomVars>>
     ELSE /\ atomsHaveBeenCreated' = TRUE
          /\ sizeHasBeenInitialized' = TRUE
          /\ UNCHANGED elementsHaveBeenCreated
          /\ IF num = Undefined
               THEN Threw("createAtomsArray", "num missing") /\ UNCHANGED atomVars
             ELSE IF ~num[1].integral
               THEN Threw("createAtomsArray", "num not integral") /\ UNCHANGED atomVars
             ELSE IF num[1].floor < N_MIN
               THEN Threw("createAtomsArray", "num below N_MIN") /\ UNCHANGED atomVars
             ELSE IF num[1].floor > N_MAX
               THEN Threw("createAtomsArray", "num above N_MAX") /\ UNCHANGED atomVars
             ELSE /\ atoms' = [f \in AtomFields |-> ZeroArray(AtomIdx)]
                  /\ atomsLength' = num[1].floor
                  /\ N' = 0
                  /\ Returned("createAtomsArray")
  /\ UNCHANGED <<toggleVars, chargeVars, elementVars, elementUsed, bondVars,
                 obstacleVars, listVars, forceVars, size, time, snapshot>>

\* ------------------------------------------------------------------ atoms
\* chargedAtomsList.indexOf(i), 1-based; 0 when i is not in the list
IndexOf(list, i) ==
  IF \E k \in 1 .. Len(list) : list[k] = i
    THEN CHOOSE k \in 1 .. Len(list) : list[k] = i /\ \A m \in 1 .. (k - 1) : list[m] # i
    ELSE 0

\* the list without its entry at position idx
RemoveAt(list, idx) == SubSeq(list, 1, idx - 1) \o SubSeq(list, idx + 1, Len(list))

\* The body of setAtomProperties(i, props).
\* st is [atoms, elementUsed, chargedAtomsList, hasChargedAtoms, err] and els
\* the elements container; the result has the shape of st.
setAtomPropertiesBody(st, els, i, props) ==
  LET hasEl == Has(props, "element")
      used == IF hasEl THEN [st.elementUsed EXCEPT ![props.element] = TRUE]
              ELSE st.elementUsed
      \* props.mass and props.radius are overwritten when the element is given
      props2 == IF hasEl
                  THEN With(With(props, "mass", els.mass[props.element]),
                            "radius", els.radius[props.element])
                  ELSE props
      old == st.atoms.charge[i]
      push == old = 0 /\ Has(props, "charge") /\ props.charge # 0
      drop == ~push /\ old # 0 /\ Has(props, "charge") /\ props.charge = 0
      idx == IndexOf(st.chargedAtomsList, i)
  IN IF drop /\ idx = 0
       THEN \* indexOf gives -1 and "chargedAtomsList.length = -1" throws
            [st EXCEPT !.elementUsed = used, !.err = "RangeError"]
       ELSE
         LET list == IF push THEN Append(st.chargedAtomsList, i)
                     ELSE IF drop THEN RemoveAt(st.chargedAtomsList, idx)
                     ELSE st.chargedAtomsList
             set == SetProps(st.atoms, i, props2)
             fin == [set EXCEPT !.px[i] = set.vx[i] * set.mass[i],
                                !.py[i] = set.vy[i] * set.mass[i]]
         IN [atoms |-> fin, elementUsed |-> used, chargedAtomsList |-> list,
             hasChargedAtoms |-> (Len(list) # 0), err |-> "none"]

\* setAtomProperties(i, props)
SetAtomProperties(i, props) ==
  /\ atoms # Undefined
  /\ i < N
  /\ LET st == setAtomPropertiesBody(
                 [atoms |-> atoms, elementUsed |-> elementUsed,
                  chargedAtomsList |-> chargedAtomsList,
                  hasChargedAtoms |-> hasChargedAtoms, err |-> "none"],
                 elements, i, props)
     IN /\ atoms' = st.atoms
        /\ elementUsed' = st.elementUsed
        /\ chargedAtomsList' = st.chargedAtomsList
        /\ hasChargedAtoms' = st.hasChargedAtoms
        /\ IF st.err = "none" THEN Returned("setAtomProperties")
           ELSE Threw("setAtomProperties", st.err)
  /\ UNCHANGED <<flagVars, toggleVars, N, atomsLength, elementVars, bondVars,
                 obstacleVars, listVars, forceVars, size, time, snapshot>>

\* addAtom(props)
AddAtom(props) ==
  /\ N < MaxAtoms
  /\ IF atoms = Undefined
       THEN \* atoms.x of an undefined container throws
            /\ Threw("addAtom", "TypeError")
            /\ UNCHANGED <<chargeVars, atomVars, elementUsed, cellList, neighborList>>
       ELSE LET st == setAtomPropertiesBody(
                        [atoms |-> atoms, elementUsed |-> elementUsed,
                         chargedAtomsList |-> chargedAtomsList,
                         hasChargedAtoms |-> hasChargedAtoms, err |-> "none"],
                        elements, N, With(With(props, "ax", 0), "ay", 0))
            IN /\ atomsLength' = IF N + 1 > atomsLength THEN N + AtomsChunk
                                 ELSE atomsLength
               /\ N' = N + 1
               /\ atoms' = st.atoms
               /\ elementUsed' = st.elementUsed
               /\ chargedAtomsList' = st.chargedAtomsList
               /\ hasChargedAtoms' = st.hasChargedAtoms
               /\ cellList' = initializeCellList(cellList, size, elements,
                                                 st.elementUsed, N_elements)
               /\ neighborList' = initializeNeighborList(neighborList, N + 1, elements,
                                                         st.elementUsed, N_elements)
               /\ Returned("addAtom")
  /\ UNCHANGED <<flagVars, toggleVars, elementVars, bondVars, obstacleVars,
                 updateNeighborList, forceVars, size, time, snapshot>>

\* setElementProperties(i, properties)
SetElementProperties(i, properties) ==
  /\ elements # Undefined
  /\ i < N_elements
  /\ LET newMass == Has(properties, "mass") /\ properties.mass # elements.mass[i]
         newRadius == IF Has(properties, "sigma") THEN ljRadius(properties.sigma)
                      ELSE elements.radius[i]
         els == [elements EXCEPT
                   !.mass[i] = IF newMass THEN properties.mass ELSE @,
                   !.sigma[i] = IF Has(properties, "sigma") THEN properties.sigma ELSE @,
                   !.radius[i] = newRadius,
                   !.epsilon[i] = IF Has(properties, "epsilon") THEN properties.epsilon ELSE @]
         st == PairLoop([elements |-> els, lj |-> cutoffDistance_LJ_sq,
                         nlsq |-> cutoffNeighborListSquared], i, 0, N_elements - 1)
     IN /\ elements' = els
        /\ cutoffDistance_LJ_sq' = st.lj
        /\ cutoffNeighborListSquared' = st.nlsq
        /\ atoms' = IF atoms = Undefined THEN atoms
                    ELSE [atoms EXCEPT
                            !.mass = [j \in AtomIdx |->
                                        IF newMass /\ j < N /\ atoms.element[j] = i
                                          THEN properties.mass ELSE atoms.mass[j]],
                            !.radius = [j \in AtomIdx |->
                                          IF newRadius # elements.radius[i] /\ j < N
                                             /\ atoms.element[j] = i
                                            THEN newRadius ELSE atoms.radius[j]]]
  /\ Returned("setElementProperties")
  /\ UNCHANGED <<flagVars, toggleVars, chargeVars, N, atomsLength, elementsLength,
                 N_elements, elementUsed, bondVars, obstacleVars, listVars, forceVars,
                 size, time, snapshot>>

\* ----------------------------------------------------------- radial bonds
RadialBondFields == {"atom1", "atom2", "length", "strength", "style"}
\* radialBondMatrix = []: no entry is truthy
EmptyMatrix == [i \in AtomIdx |-> [j \in AtomIdx |-> FALSE]]

\* The body of setRadialBondProperties(i, props); st is [radialBonds, radialBondMatrix].
setRadialBondPropertiesBody(st, i, props) ==
  LET old1 == st.radialBonds.atom1[i]
      old2 == st.radialBonds.atom2[i]
      \* Unset current radial bond matrix entry.
      unset == [st.radialBondMatrix EXCEPT ![old1][old2] = FALSE, ![old2][old1] = FALSE]
      bonds == SetProps(st.radialBonds, i, props)
      new1 == bonds.atom1[i]
      new2 == bonds.atom2[i]
      \* Update radial bond matrix.  The two writes follow one another.
      set1 == [unset EXCEPT ![new1][new2] = TRUE]
      set2 == [set1 EXCEPT ![new2][new1] = TRUE]
  IN [radialBonds |-> bonds, radialBondMatrix |-> set2]

\* setRadialBondProperties(i, props)
SetRadialBondProperties(i, props) ==
  /\ i < N_radialBonds
  /\ LET st == setRadialBondPropertiesBody(
                 [radialBonds |-> radialBonds, radialBondMatrix |-> radialBondMatrix],
                 i, props)
     IN /\ radialBonds' = st.radialBonds
        /\ radialBondMatrix' = st.radialBondMatrix
  \* Update radial bond results also.
  /\ radialBondResults' = [radialBondResults EXCEPT ![i] = Merge(@, props)]
  /\ Ended("setRadialBondProperties", "none")
  /\ UNCHANGED <<outputState, springVars, moleculeVars, returned>>
  /\ UNCHANGED <<flagVars, toggleVars, chargeVars, atomVars, elementVars, elementUsed,
                 N_radialBonds, angularVars, obstacleVars, listVars, forceVars, size, time,
                 snapshot>>

\* addRadialBond(props)
AddRadialBond(props) ==
  /\ N_radialBonds < MaxRadialBonds
  /\ LET first == N_radialBonds = 0
         st == setRadialBondPropertiesBody(
                 [radialBonds |-> IF first THEN [f \in RadialBondFields |-> ZeroArray(BondIdx)]
                                  ELSE radialBonds,
                  radialBondMatrix |-> IF first THEN EmptyMatrix ELSE radialBondMatrix],
                 N_radialBonds, props)
     IN /\ radialBonds' = st.radialBonds
        /\ radialBondMatrix' = st.radialBondMatrix
  \* Add results object; setRadialBondProperties updates it also.
  /\ radialBondResults' =
       [(IF N_radialBonds = 0 THEN [k \in BondIdx |-> Undefined] ELSE radialBondResults)
          EXCEPT ![N_radialBonds] = Merge([idx |-> N_radialBonds], props)]
  /\ N_radialBonds' = N_radialBonds + 1
  /\ Ended("addRadialBond", "none")
  /\ UNCHANGED <<outputState, springVars, moleculeVars, returned>>
  /\ UNCHANGED <<flagVars, toggleVars, chargeVars, atomVars, elementVars, elementUsed,
                 angularVars, obstacleVars, listVars, forceVars, size, time, snapshot>>

\* -------------------------------------------------------------- obstacles
ObstacleFields == {"x", "y", "width", "height", "mass", "vx", "vy",
                   "externalFx", "externalFy", "friction",
                   "westProbe", "northProbe", "eastProbe", "southProbe",
                   "wProbeValue", "nProbeValue", "eProbeValue", "sProbeValue",
                   "xPrev", "yPrev"}

\* The body of setObstacleProperties(i, props): a manually changed position
\* is also the previous position.
setObstaclePropertiesBody(obs, i, props) ==
  LET p1 == IF Has(props, "x") THEN With(props, "xPrev", props.x) ELSE props
      p2 == IF Has(p1, "y") THEN With(p1, "yPrev", p1.y) ELSE p1
  IN SetProps(obs, i, p2)

\* props.westProbe || props.northProbe || props.eastProbe || props.southProbe
HasProbe(props) ==
  \E k \in {"westProbe", "northProbe", "eastProbe", "southProbe"} :
     Has(props, k) /\ props[k] # 0

\* pressureBuffers.initialize(obstacles, N_obstacles)
initializePressureBuffers(pb, nObs) == [pb EXCEPT !.obstaclesNum = nObs]

\* pressureBuffers.updateBuffers(duration)
updateBuffers(pb, duration) == [pb EXCEPT !.duration = @ + duration]

\* setObstacleProperties(i, props)
SetObstacleProperties(i, props) ==
  /\ i < N_obstacles
  /\ obstacles' = setObstaclePropertiesBody(obstacles, i, props)
  /\ pressureBuffers' = IF HasProbe(props)
                          THEN initializePressureBuffers(pressureBuffers, N_obstacles)
                          ELSE pressureBuffers
  /\ Returned("setObstacleProperties")
  /\ UNCHANGED <<flagVars, toggleVars, chargeVars, atomVars, elementVars, elementUsed,
                 bondVars, N_obstacles, listVars, forceVars, size, time, snapshot>>

\* addObstacle(props)
AddObstacle(props) ==
  /\ N_obstacles < MaxObstacles
  /\ obstacles' = setObstaclePropertiesBody(
                    IF N_obstacles = 0 THEN [f \in ObstacleFields |-> ZeroArray(ObstIdx)]
                    ELSE obstacles,
                    N_obstacles, props)
  /\ N_obstacles' = N_obstacles + 1
  /\ pressureBuffers' = IF HasProbe(props)
                          THEN initializePressureBuffers(pressureBuffers, N_obstacles + 1)
                          ELSE pressureBuffers
  /\ Returned("addObstacle")
  /\ UNCHANGED <<flagVars, toggleVars, chargeVars, atomVars, elementVars, elementUsed,
                 bondVars, listVars, forceVars, size, time, snapshot>>

\* --------------------------------------------------------------- toggles
\* useLennardJonesInteraction(v)
UseLennardJonesInteraction(v) ==
  /\ useLennardJonesInteraction' = v
  /\ Returned("useLennardJonesInteraction")
  /\ UNCHANGED <<flagVars, useCoulombInteraction, gravitationalField, viscosity,
                 thermoVars, chargeVars, atomVars, elementVars, elementUsed, bondVars,
                 obstacleVars, listVars, forceVars, size, time, snapshot>>

\* useCoulombInteraction(v)
UseCoulombInteraction(v) ==
  /\ useCoulombInteraction' = v
  /\ Returned("useCoulombInteraction")
  /\ UNCHANGED <<flagVars, useLennardJonesInteraction, gravitationalField, viscosity,
                 thermoVars, chargeVars, atomVars, elementVars, elementUsed, bondVars,
                 obstacleVars, listVars, forceVars, size, time, snapshot>>

\* setGravitationalField(gf): a number other than 0, or false (kept as 0,
\* which every reader of gravitationalField treats as false)
SetGravitationalField(gf) ==
  /\ gravitationalField' = gf
  /\ Returned("setGravitationalField")
  /\ UNCHANGED <<flagVars, useCoulombInteraction, useLennardJonesInteraction, viscosity,
                 thermoVars, chargeVars, atomVars, elementVars, elementUsed, bondVars,
                 obstacleVars, listVars, forceVars, size, time, snapshot>>

\* setViscosity(v)
SetViscosity(v) ==
  /\ viscosity' = <<v>>
  /\ Returned("setViscosity")
  /\ UNCHANGED <<flagVars, useCoulombInteraction, useLennardJonesInteraction,
                 gravitationalField, thermoVars, chargeVars, atomVars, elementVars,
                 elementUsed, bondVars, obstacleVars, listVars, forceVars, size, time, snapshot>>

\* ------------------------------------------------------ pair potentials
\* The kernels live outside md2d.js; the model keeps their sign convention
\* (the force on a from b is (F/r) * (b - a): negative pushes apart) and
\* gives every force the magnitude ForceUnit, so that a force divided by a
\* mass of 1 or 2 and halved in the half-kick stays an integer.
ForceUnit == 4

\* ljCalculator[elI][elJ].forceOverDistanceFromSquaredDistance(rSq):
\* repulsive below the pair's sigma, attractive above it
ljForceOverDistance(rSq, s) == IF rSq < s * s THEN -ForceUnit ELSE ForceUnit

\* coulomb.forceOverDistanceFromSquaredDistance(rSq, q1, q2): like charges repel
coulombForceOverDistance(rSq, q1, q2) == -ForceUnit * q1 * q2

\* k * (r - r0) / r of updateRadialBondForces, by its sign: a stretched bond
\* pulls its atoms together
radialBondForceOverDistance(rSq, k, r0) ==
  IF rSq > r0 * r0 THEN ForceUnit * k
  ELSE IF rSq < r0 * r0 THEN -ForceUnit * k
  ELSE 0

\* convert(k * r) / r of updateSpringForces: the spring pulls its atom to
\* the anchor
springForceOverDistance(k) == ForceUnit * k

\* Most entries of the spring force arrays
MaxSprings == 3
SpringIdx == 0 .. (MaxSprings - 1)

\* The entries updateSpringForces goes through.  An entry beyond the end of
\* typed arrays reads undefined for the atom index, and the entry adds to
\* ax[undefined]: no atom gets a force from it.
AppliedSlots ==
  IF springForces = Undefined THEN {}
  ELSE {k \in SpringIdx : k < N_springForces /\ springForces.slot[k] # Undefined}

\* The entries updateAngularBondForces goes through: none without angular
\* bonds, else every entry of the arrays (entry s of the model is index
\* s - 1 of the code).
angularBondLoop(ab, n) == IF n < 1 THEN {} ELSE 1 .. Len(ab.atom1)

\* The vectors of entry s of the angular bonds ab, with the atoms at:
\* atom 3 is the vertex, ij goes from it to atom 1 and kj to atom 2.
angularBondGeometry(ab, at, s) ==
  LET i1 == ab.atom1[s]
      i2 == ab.atom2[s]
      i3 == ab.atom3[s]
      dxij == at.x[i1] - at.x[i3]
      dxkj == at.x[i2] - at.x[i3]
      dyij == at.y[i1] - at.y[i3]
      dykj == at.y[i2] - at.y[i3]
  IN [i1 |-> i1, i2 |-> i2, i3 |-> i3,
      dxij |-> dxij, dxkj |-> dxkj, dyij |-> dyij, dykj |-> dykj,
      rijSquared |-> dxij * dxij + dyij * dyij,
      rkjSquared |-> dxkj * dxkj + dykj * dykj,
      temp |-> dxij * dxkj + dyij * dykj]

\* cosTheta is 0 / 0 = NaN when an arm of the bond has no length, and so is
\* every force of the entry
angularBondIsNaN(g) == g.rijSquared = 0 \/ g.rkjSquared = 0

\* theta = acos(cosTheta) in quarter turns, to the nearest: 0 for
\* cosTheta > cos(pi/4), 2 for cosTheta < -cos(pi/4), else 1
angularBondTheta(g) ==
  IF 2 * g.temp * g.temp > g.rijSquared * g.rkjSquared
    THEN (IF g.temp > 0 THEN 0 ELSE 2)
    ELSE 1

\* commonPrefactor of updateAngularBondForces, by its sign: the sign of
\* k * (theta - angle), the angle of the bond being in quarter turns
angularBondPrefactor(g, k, angle) ==
  IF angularBondTheta(g) > angle THEN ForceUnit * k
  ELSE IF angularBondTheta(g) < angle THEN -ForceUnit * k
  ELSE 0

\* forceInXForI, forceInYForI (arm = "i") and forceInXForK, forceInYForK
\* (arm = "k") of entry s, along c
angularBondForce(ab, at, s, arm, c) ==
  LET g == angularBondGeometry(ab, at, s)
      dij == IF c = "x" THEN g.dxij ELSE g.dyij
      dkj == IF c = "x" THEN g.dxkj ELSE g.dykj
      cp == angularBondPrefactor(g, ab.strength[s], ab.angle[s])
  IN IF arm = "i" THEN cp * (dkj - ((g.temp * dij) \div g.rijSquared))
     ELSE cp * (dij - ((g.temp * dkj) \div g.rkjSquared))

\* what entry s adds to the acceleration of atom i along c
angularBondForceOn(ab, at, s, i, c) ==
  (IF ab.atom1[s] = i THEN angularBondForce(ab, at, s, "i", c) ELSE 0)
  + (IF ab.atom2[s] = i THEN angularBondForce(ab, at, s, "k", c) ELSE 0)
  - (IF ab.atom3[s] = i
       THEN angularBondForce(ab, at, s, "i", c) + angularBondForce(ab, at, s, "k", c)
       ELSE 0)

RECURSIVE SumOver(_, _)
\* the sum of f[p] over the set S
SumOver(S, f) == IF S = {} THEN 0
                 ELSE LET p == CHOOSE p \in S : TRUE IN f[p] + SumOver(S \ {p}, f)

SqDist(at, i, j) ==
  (at.x[j] - at.x[i]) * (at.x[j] - at.x[i]) + (at.y[j] - at.y[i]) * (at.y[j] - at.y[i])

\* radialBondMatrix && radialBondMatrix[i] && radialBondMatrix[i][j]
Bonded(matrix, i, j) == matrix # Undefined /\ matrix[i][j]

\* ------------------------------------------------- neighbor list, cell list
\* neighborList.shouldUpdate(x, y): some atom moved further than half of
\* maxDisplacement from its saved position.  With maxDisplacement2 = 2 * maxDisplacement
\* that is sqrt(dSq) > maxDisplacement2 / 4.
shouldUpdate(nl, at) ==
  \E i \in AtomIdx :
     /\ i < nl.atomsNum
     /\ LET dSq == (at.x[i] - nl.x[i]) * (at.x[i] - nl.x[i])
                   + (at.y[i] - nl.y[i]) * (at.y[i] - nl.y[i])
        IN \* no displacement exceeds an infinite maxDisplacement
           /\ nl.maxDisplacement2 # Infinity
           /\ 16 * dSq > nl.maxDisplacement2 * nl.maxDisplacement2

\* cellList.addToCell(i, x, y) for every atom: the flat index row * cols + col
\* of the cell that owns (x, y); an index outside the grid owns no bucket.
FloorDiv(a, b) == a \div b

cellIndex(cl, xi, yi) ==
  IF cl.cellSize2 = 0 THEN NoCell
  ELSE LET idx == FloorDiv(2 * yi, cl.cellSize2) * cl.cols + FloorDiv(2 * xi, cl.cellSize2)
       IN IF idx >= 0 /\ idx < cl.rows * cl.cols THEN idx ELSE NoCell

fillCells(cl, at, n) ==
  [cl EXCEPT !.cell = [i \in AtomIdx |->
                         IF i < n THEN cellIndex(cl, at.x[i], at.y[i]) ELSE NoCell]]

\* cellList.getNeighboringCells(row, col): the half stencil, the cells
\* east, north-west, north and north-east of (row, col) that are in the grid
getNeighboringCells(cl, idx) ==
  LET row == idx \div cl.cols
      col == idx % cl.cols
  IN {r * cl.cols + c : <<r, c>> \in
        {rc \in {<<row, col + 1>>, <<row + 1, col - 1>>, <<row + 1, col>>,
                 <<row + 1, col + 1>>} :
           rc[1] < cl.rows /\ rc[2] >= 0 /\ rc[2] < cl.cols}}

\* the calls calculateLJInteraction(i, j) that shortRangeForcesCellList makes
cellListPairs(cl, n) ==
  {p \in AtomIdx \X AtomIdx :
     /\ p[1] < n /\ p[2] < n /\ p[1] # p[2]
     /\ cl.cell[p[1]] # NoCell /\ cl.cell[p[2]] # NoCell
     /\ \/ cl.cell[p[1]] = cl.cell[p[2]] /\ p[2] < p[1]
        \/ cl.cell[p[2]] \in getNeighboringCells(cl, cl.cell[p[1]])}

\* the calls calculateLJInteraction(i, j) that shortRangeForcesNeighborList makes
neighborListPairs(nl, n) == {p \in nl.list : p[1] < n}

\* -------------------------------------------------------- accelerations
\* updateParticlesAccelerations() on the working state e, the record
\*   [atoms, obstacles, cellList, neighborList, updateNeighborList, lj, cb,
\*    tcip, tw, err]
\* (lj, cb: the pairs given a Lennard-Jones, a Coulomb contribution; tcip:
\* temperatureChangeInProgress; tw: the windowed averager).
updateParticlesAccelerations(e, n) ==
  LET at == e.atoms
      update == shouldUpdate(e.neighborList, at)
      \* Clear both lists, refill the cells, save the positions.
      cl == IF update THEN fillCells(e.cellList, at, n) ELSE e.cellList
      nl0 == IF update
               THEN [e.neighborList EXCEPT
                       !.list = {},
                       !.x = [i \in AtomIdx |-> IF i < n THEN at.x[i] ELSE @[i]],
                       !.y = [i \in AtomIdx |-> IF i < n THEN at.y[i] ELSE @[i]]]
               ELSE e.neighborList
      \* updateShortRangeForces(): the calls of calculateLJInteraction ...
      calls == IF ~useLennardJonesInteraction THEN {}
               ELSE IF update THEN cellListPairs(cl, n)
               ELSE neighborListPairs(nl0, n)
      \* ... of which the bonded pairs return at once
      live == {p \in calls : ~Bonded(radialBondMatrix, p[1], p[2])}
      marked == {p \in live :
                   update /\ 4 * SqDist(at, p[1], p[2])
                               < cutoffNeighborListSquared[at.element[p[1]]][at.element[p[2]]]}
      lj == {p \in live :
               SqDist(at, p[1], p[2]) < cutoffDistance_LJ_sq[at.element[p[1]]][at.element[p[2]]]}
      ljF == [p \in lj |->
                ljForceOverDistance(SqDist(at, p[1], p[2]),
                   pairwiseSigma(elements.sigma[at.element[p[1]]],
                                 elements.sigma[at.element[p[2]]]))]
      \* updateLongRangeForces(): charged atom against every earlier one in the list
      cb == IF ~useCoulombInteraction \/ ~hasChargedAtoms THEN {}
            ELSE {q \in (1 .. Len(chargedAtomsList)) \X (1 .. Len(chargedAtomsList)) :
                    /\ q[2] < q[1]
                    /\ ~Bonded(radialBondMatrix, chargedAtomsList[q[1]], chargedAtomsList[q[2]])}
      cbA(q) == chargedAtomsList[q[1]]
      cbB(q) == chargedAtomsList[q[2]]
      cbF == [q \in cb |->
                coulombForceOverDistance(SqDist(at, cbA(q), cbB(q)),
                                         at.charge[cbA(q)], at.charge[cbB(q)])]
      \* updateRadialBondForces()
      rb == {k \in BondIdx : k < N_radialBonds}
      rbF == [k \in rb |->
                radialBondForceOverDistance(
                  SqDist(at, radialBonds.atom1[k], radialBonds.atom2[k]),
                  radialBonds.strength[k], radialBonds.length[k])]
      \* updateAngularBondForces()
      ang == angularBondLoop(angularBonds, N_angularBonds)
      angNaN(i) == \E s \in ang :
                      /\ i \in {angularBonds.atom1[s], angularBonds.atom2[s],
                                angularBonds.atom3[s]}
                      /\ angularBondIsNaN(angularBondGeometry(angularBonds, at, s))
      \* updateSpringForces(): the first N_springForces entries of the arrays
      sp == AppliedSlots
      \* updateFrictionForces()
      drag(i) == IF viscosity = Undefined \/ viscosity = <<0>> THEN 0
                 ELSE viscosity[1] * at.friction[i]
      \* the force on atom i along x (c = "x") or y (c = "y")
      d(c, a, b) == IF c = "x" THEN at.x[b] - at.x[a] ELSE at.y[b] - at.y[a]
      v(c, i) == IF c = "x" THEN at.vx[i] ELSE at.vy[i]
      force(c, i) ==
          SumOver(lj, [p \in lj |-> IF p[1] = i THEN ljF[p] * d(c, p[1], p[2])
                                    ELSE IF p[2] = i THEN -(ljF[p] * d(c, p[1], p[2]))
                                    ELSE 0])
        + SumOver(cb, [q \in cb |-> IF cbA(q) = i THEN cbF[q] * d(c, cbA(q), cbB(q))
                                    ELSE 0])
        + SumOver(cb, [q \in cb |-> IF cbB(q) = i THEN -(cbF[q] * d(c, cbA(q), cbB(q)))
                                    ELSE 0])
        + SumOver(rb, [k \in rb |->
                         IF radialBonds.atom1[k] = i
                           THEN rbF[k] * d(c, radialBonds.atom1[k], radialBonds.atom2[k])
                           ELSE 0])
        + SumOver(rb, [k \in rb |->
                         IF radialBonds.atom2[k] = i
                           THEN -(rbF[k] * d(c, radialBonds.atom1[k], radialBonds.atom2[k]))
                           ELSE 0])
        + SumOver(ang, [s \in ang |->
                          IF angularBondIsNaN(angularBondGeometry(angularBonds, at, s)) THEN 0
                          ELSE angularBondForceOn(angularBonds, at, s, i, c)])
        + SumOver(sp, [k \in sp |->
                         IF springForces.slot[k].atomIndex = i
                           THEN springForceOverDistance(springForces.slot[k].strength)
                                  * (springForces.slot[k][c] - (IF c = "x" THEN at.x[i] ELSE at.y[i]))
                           ELSE 0])
        - v(c, i) * drag(i)
      \* forces to accelerations, then gravity
      accel(c, i) == IF angNaN(i) THEN NaN
                     ELSE (force(c, i) \div at.mass[i])
                          - (IF c = "y" THEN gravitationalField ELSE 0)
  IN [e EXCEPT
        !.atoms = [at EXCEPT
                     !.ax = [i \in AtomIdx |-> IF i < n THEN accel("x", i) ELSE @[i]],
                     !.ay = [i \in AtomIdx |-> IF i < n THEN accel("y", i) ELSE @[i]]],
        !.cellList = cl,
        !.neighborList = [nl0 EXCEPT !.list = @ \cup marked],
        !.updateNeighborList = update,
        !.lj = lj,
        !.cb = {<<cbA(q), cbB(q)>> : q \in cb}]

\* ------------------------------------------------------------ collisions
IsNaN(a) == a = NaN

RECURSIVE FoldUp(_, _, _)
\* while (x < bound) x += w
FoldUp(x, bound, w) == IF x < bound THEN FoldUp(x + w, bound, w) ELSE x

RECURSIVE FoldDown(_, _, _)
\* while (x > bound) x -= w
FoldDown(x, bound, w) == IF x > bound THEN FoldDown(x - w, bound, w) ELSE x

\* bounceParticleOffWalls(i)
bounceParticleOffWalls(at, i, sz) ==
  LET r == at.radius[i]
      leftwall == r
      bottomwall == r
      width == sz[1]
      height == sz[2]
      rightwall == width - r
      topwall == height - r
      \* Bounce off vertical walls.
      a1 == IF at.x[i] < leftwall
              THEN [at EXCEPT
                      !.x[i] = leftwall + (leftwall - FoldUp(at.x[i], leftwall - width, width)),
                      !.vx[i] = -@, !.px[i] = -@]
            ELSE IF at.x[i] > rightwall
              THEN [at EXCEPT
                      !.x[i] = rightwall - (FoldDown(at.x[i], rightwall + width, width) - rightwall),
                      !.vx[i] = -@, !.px[i] = -@]
            ELSE at
      \* Bounce off horizontal walls.
  IN IF a1.y[i] < bottomwall
       THEN [a1 EXCEPT
               !.y[i] = bottomwall + (bottomwall - FoldUp(a1.y[i], bottomwall - height, height)),
               !.vy[i] = -@, !.py[i] = -@]
     ELSE IF a1.y[i] > topwall
       THEN [a1 EXCEPT
               !.y[i] = topwall - (FoldDown(a1.y[i], topwall + height, height) - topwall),
               !.vy[i] = -@, !.py[i] = -@]
     ELSE a1

\* bounceObstacleOffWalls(i); the fold at the top wall steps by the width
bounceObstacleOffWalls(obs, i, sz) ==
  LET leftwall == 0
      bottomwall == 0
      width == sz[1]
      height == sz[2]
      rightwall == width - obs.width[i]
      topwall == height - obs.height[i]
      o1 == IF obs.x[i] < leftwall
              THEN [obs EXCEPT
                      !.x[i] = leftwall + (leftwall - FoldUp(obs.x[i], leftwall - width, width)),
                      !.vx[i] = -@]
            ELSE IF obs.x[i] > rightwall
              THEN [obs EXCEPT
                      !.x[i] = rightwall - (FoldDown(obs.x[i], rightwall + width, width) - rightwall),
                      !.vx[i] = -@]
            ELSE obs
  IN IF o1.y[i] < bottomwall
       THEN [o1 EXCEPT
               !.y[i] = bottomwall + (bottomwall - FoldUp(o1.y[i], bottomwall - height, height)),
               !.vy[i] = -@]
     ELSE IF o1.y[i] > topwall
       THEN [o1 EXCEPT
               !.y[i] = topwall - (FoldDown(o1.y[i], topwall + width, width) - topwall),
               !.vy[i] = -@]
     ELSE o1

\* One turn of the loop of bounceParticleOffObstacles, for obstacle j.
\* c is [atoms, obstacles, vxPrev, vyPrev]; r, xi, yi are the atom's radius and
\* position when the function was entered.  vxPrev and vyPrev are only ever
\* tested for being truthy, so "not yet assigned" is 0.
bounceOffObstacle(c, i, j, r, xi, yi, x_prev, y_prev, updatePressure) ==
  LET at == c.atoms
      obs == c.obstacles
      nan == IsNaN(obs.x[j]) \/ IsNaN(obs.y[j])
      x_left == obs.x[j] - r
      x_right == obs.x[j] + obs.width[j] + r
      y_top == obs.y[j] + obs.height[j] + r
      y_bottom == obs.y[j] - r
      x_left_prev == obs.xPrev[j] - r
      x_right_prev == obs.xPrev[j] + obs.width[j] + r
      y_top_prev == obs.yPrev[j] + obs.height[j] + r
      y_bottom_prev == obs.yPrev[j] - r
      inside == ~nan /\ xi > x_left /\ xi < x_right /\ yi > y_bottom /\ yi < y_top
      bounceDirection ==
        IF ~inside THEN 0
        ELSE IF x_prev <= x_left_prev THEN 1
        ELSE IF x_prev >= x_right_prev THEN 2
        ELSE IF y_prev <= y_bottom_prev THEN -1
        ELSE IF y_prev >= y_top_prev THEN -2
        ELSE 0
      moved == CASE bounceDirection = 1 -> [at EXCEPT !.x[i] = x_left - (xi - x_left)]
                 [] bounceDirection = 2 -> [at EXCEPT !.x[i] = x_right + (x_right - xi)]
                 [] bounceDirection = -1 -> [at EXCEPT !.y[i] = y_bottom - (yi - y_bottom)]
                 [] bounceDirection = -2 -> [at EXCEPT !.y[i] = y_top + (y_top - yi)]
                 [] OTHER -> at
      obs_mass == obs.mass[j]
      atom_mass == at.mass[i]
      totalMass == obs_mass + atom_mass
      movable == obs_mass # Infinity
      vxPrev == IF bounceDirection > 0 /\ movable THEN at.vx[i] ELSE c.vxPrev
      vyPrev == IF bounceDirection < 0 /\ movable THEN at.vy[i] ELSE c.vyPrev
      \* the velocities after the collision
      vxNew == IF bounceDirection > 0
                 THEN IF movable
                        THEN (at.vx[i] * (atom_mass - obs_mass) + 2 * obs_mass * obs.vx[j])
                               \div totalMass
                        ELSE -at.vx[i]
                 ELSE at.vx[i]
      vyNew == IF bounceDirection < 0
                 THEN IF movable
                        THEN (at.vy[i] * (atom_mass - obs_mass) + 2 * obs_mass * obs.vy[j])
                               \div totalMass
                        ELSE -at.vy[i]
                 ELSE at.vy[i]
      obsVx == IF bounceDirection > 0 /\ movable
                 THEN (obs.vx[j] * (obs_mass - atom_mass) + 2 * at.px[i]) \div totalMass
                 ELSE obs.vx[j]
      obsVy == IF bounceDirection < 0 /\ movable
                 THEN (obs.vy[j] * (obs_mass - atom_mass) + 2 * at.py[i]) \div totalMass
                 ELSE obs.vy[j]
      before(prev, new) == IF prev # 0 THEN prev ELSE -new
      m == at.mass[i]
      probe == IF ~updatePressure \/ bounceDirection = 0 THEN "none"
               ELSE IF obs.westProbe[j] # 0 /\ bounceDirection = 1 THEN "west"
               ELSE IF obs.eastProbe[j] # 0 /\ bounceDirection = 2 THEN "east"
               ELSE IF obs.southProbe[j] # 0 /\ bounceDirection = -1 THEN "south"
               ELSE IF obs.northProbe[j] # 0 /\ bounceDirection = -2 THEN "north"
               ELSE "none"
  IN [atoms |-> [moved EXCEPT !.vx[i] = vxNew, !.vy[i] = vyNew],
      obstacles |->
        [obs EXCEPT
           !.vx[j] = obsVx,
           !.vy[j] = obsVy,
           !.wProbeValue[j] = IF probe = "west" THEN @ + m * (before(vxPrev, vxNew) - vxNew) ELSE @,
           !.eProbeValue[j] = IF probe = "east" THEN @ + m * (vxNew - before(vxPrev, vxNew)) ELSE @,
           !.sProbeValue[j] = IF probe = "south" THEN @ + m * (before(vyPrev, vyNew) - vyNew) ELSE @,
           !.nProbeValue[j] = IF probe = "north" THEN @ + m * (vyNew - before(vyPrev, vyNew)) ELSE @],
      vxPrev |-> vxPrev,
      vyPrev |-> vyPrev]

RECURSIVE obstacleLoop(_, _, _, _, _, _, _, _, _, _)
obstacleLoop(c, i, j, nObs, r, xi, yi, x_prev, y_prev, updatePressure) ==
  IF j >= nObs THEN c
  ELSE obstacleLoop(bounceOffObstacle(c, i, j, r, xi, yi, x_prev, y_prev, updatePressure),
                    i, j + 1, nObs, r, xi, yi, x_prev, y_prev, updatePressure)

\* bounceParticleOffObstacles(i, x_prev, y_prev, updatePressure) on e
bounceParticleOffObstacles(e, i, nObs, x_prev, y_prev, updatePressure) ==
  IF nObs < 1 THEN e
  ELSE LET c == obstacleLoop([atoms |-> e.atoms, obstacles |-> e.obstacles,
                              vxPrev |-> 0, vyPrev |-> 0],
                             i, 0, nObs, e.atoms.radius[i], e.atoms.x[i], e.atoms.y[i],
                             x_prev, y_prev, updatePressure)
       IN [e EXCEPT !.atoms = c.atoms, !.obstacles = c.obstacles]

\* ------------------------------------------------------------ integration
\* halfUpdateVelocity(): v += 0.5 * a * dt, p = m * v.  NaN stays NaN.
halfUpdateVelocity(at, n, dt) ==
  LET kick(v, a) == IF IsNaN(v) \/ IsNaN(a) THEN NaN ELSE v + ((a * dt) \div 2)
      mom(m, v) == IF IsNaN(v) THEN NaN ELSE m * v
      nvx == [i \in AtomIdx |-> IF i < n THEN kick(at.vx[i], at.ax[i]) ELSE at.vx[i]]
      nvy == [i \in AtomIdx |-> IF i < n THEN kick(at.vy[i], at.ay[i]) ELSE at.vy[i]]
  IN [at EXCEPT
        !.vx = nvx,
        !.vy = nvy,
        !.px = [i \in AtomIdx |-> IF i < n THEN mom(at.mass[i], nvx[i]) ELSE @[i]],
        !.py = [i \in AtomIdx |-> IF i < n THEN mom(at.mass[i], nvy[i]) ELSE @[i]]]

\* updateParticlesPosition(), from atom i on; a throw ends the loop with the
\* atoms before i moved and atom i at its new, unbounced position
RECURSIVE updateParticlesPosition(_, _, _, _, _, _)
updateParticlesPosition(e, i, n, nObs, dt, sz) ==
  IF i >= n \/ e.err # "none" THEN e
  ELSE
    LET at == e.atoms
        xPrev == at.x[i]
        yPrev == at.y[i]
        nx == IF IsNaN(at.vx[i]) THEN NaN ELSE at.x[i] + at.vx[i] * dt
        ny == IF IsNaN(at.vy[i]) THEN NaN ELSE at.y[i] + at.vy[i] * dt
        drifted == [at EXCEPT !.x[i] = nx, !.y[i] = ny]
    IN IF IsNaN(nx) \/ IsNaN(ny) \/ Abs(nx) > sz[1] * 100 \/ Abs(ny) > sz[2] * 100
         THEN [e EXCEPT !.atoms = drifted, !.err = "Model has diverged!"]
         ELSE updateParticlesPosition(
                bounceParticleOffObstacles(
                  [e EXCEPT !.atoms = bounceParticleOffWalls(drifted, i, sz)],
                  i, nObs, xPrev, yPrev, TRUE),
                i + 1, n, nObs, dt, sz)

\* pinAtoms()
pinAtoms(at, n) ==
  LET z(f) == [i \in AtomIdx |-> IF i < n /\ at.pinned[i] # 0 THEN 0 ELSE f[i]]
  IN [at EXCEPT !.vx = z(at.vx), !.vy = z(at.vy), !.ax = z(at.ax), !.ay = z(at.ay)]

\* The turn of the loop of updateObstaclesPosition() for obstacle i.  An
\* undefined viscosity makes drag, and with it position and velocity, NaN.
updateObstaclePosition(obs, i, dt, sz) ==
  LET vx == obs.vx[i]
      vy == obs.vy[i]
      extFx == obs.externalFx[i]
      extFy == obs.externalFy[i]
      truthy(a) == a # 0 /\ ~IsNaN(a)
      nan == viscosity = Undefined \/ IsNaN(vx) \/ IsNaN(vy)
             \/ IsNaN(obs.x[i]) \/ IsNaN(obs.y[i])
      drag == viscosity[1] * obs.friction[i]
      ax == extFx - drag * vx
      ay == extFy - drag * vy - gravitationalField
  IN IF obs.mass[i] = Infinity THEN obs
     ELSE IF ~(truthy(vx) \/ truthy(vy) \/ truthy(extFx) \/ truthy(extFy)
               \/ gravitationalField # 0) THEN obs
     ELSE IF nan
       THEN [obs EXCEPT !.xPrev[i] = obs.x[i], !.yPrev[i] = obs.y[i],
                        !.x[i] = NaN, !.y[i] = NaN, !.vx[i] = NaN, !.vy[i] = NaN]
     ELSE bounceObstacleOffWalls(
            [obs EXCEPT !.xPrev[i] = obs.x[i], !.yPrev[i] = obs.y[i],
                        !.x[i] = @ + vx * dt + ((ax * dt * dt) \div 2),
                        !.y[i] = @ + vy * dt + ((ay * dt * dt) \div 2),
                        !.vx[i] = @ + ax * dt,
                        !.vy[i] = @ + ay * dt],
            i, sz)

RECURSIVE updateObstaclesPosition(_, _, _, _, _)
updateObstaclesPosition(obs, i, nObs, dt, sz) ==
  IF i >= nObs THEN obs
  ELSE updateObstaclesPosition(updateObstaclePosition(obs, i, dt, sz), i + 1, nObs, dt, sz)

\* ------------------------------------------------------------ thermostat
\* Temperatures are in the unit in which KE_to_T(twoKE / 2, N) = twoKE / N.
\* computeTemperature(): twice the kinetic energy of the atoms and of the
\* movable obstacles, NaN if one of their velocities is
twoKE(at, n, obs, nObs) ==
  LET A == {i \in AtomIdx : i < n}
      O == {j \in ObstIdx : j < nObs /\ obs.mass[j] # Infinity}
  IN IF (\E i \in A : IsNaN(at.vx[i]) \/ IsNaN(at.vy[i]))
        \/ (\E j \in O : IsNaN(obs.vx[j]) \/ IsNaN(obs.vy[j]))
       THEN NaN
       ELSE SumOver(A, [i \in A |-> at.mass[i] * (at.vx[i] * at.vx[i] + at.vy[i] * at.vy[i])])
          + SumOver(O, [j \in O |-> obs.mass[j] * (obs.vx[j] * obs.vx[j] + obs.vy[j] * obs.vy[j])])

\* the integer f >= 0 with f * f * ke = target * n, or -1 if there is none
MaxFactor == 8
RescalingFactor(target, ke, n) ==
  IF \E f \in 0 .. MaxFactor : f * f * ke = target * n
    THEN CHOOSE f \in 0 .. MaxFactor : f * f * ke = target * n
    ELSE -1

\* adjustTemperature() as integrate calls it: target = T_target, no forced adjustment
adjustTemperature(e, n, nObs) ==
  LET ke == twoKE(e.atoms, n, e.obstacles, nObs)
      \* T is twoKE / N: NaN for NaN velocities and for 0 / 0
      tNaN == IsNaN(ke) \/ (n = 0 /\ ke = 0)
      tPositive == ~tNaN /\ ke > 0
      \* a target that is a finite number >= 0; the square root of a negative
      \* quotient is NaN, and so is every product with it
      targetOk == /\ T_target # Undefined /\ ~IsNaN(T_target[1])
                  /\ T_target[1] # Infinity /\ T_target[1] >= 0
      \* |T_windowed(T) - Infinity| <= Infinity * tempTolerance holds
      targetInfinite == T_target # Undefined /\ T_target[1] = Infinity
      \* T_windowed(T): the average of the values given since the change began
      tw == IF e.tcip /\ ~tNaN THEN [sum |-> e.tw.sum + ke, count |-> e.tw.count + 1]
            ELSE e.tw
      reached == /\ e.tcip /\ ~tNaN /\ n > 0
                 /\ \/ targetInfinite
                    \/ /\ targetOk
                       /\ 1000 * Abs(tw.sum - T_target[1] * n * tw.count)
                            <= T_target[1] * n * tw.count
      tcip == e.tcip /\ ~reached
      rescale == useThermostat \/ (tcip /\ tPositive)
      f == IF tPositive /\ targetOk /\ n > 0 THEN RescalingFactor(T_target[1], ke, n) ELSE 0
      sc(v) == IF ~(tPositive /\ targetOk /\ n > 0) \/ IsNaN(v) THEN NaN ELSE v * f
      e1 == [e EXCEPT !.tcip = tcip, !.tw = tw]
  IN IF ~rescale THEN e1
     ELSE IF f = -1 THEN [e1 EXCEPT !.err = "inexact"]
     ELSE [e1 EXCEPT
             !.atoms = [e.atoms EXCEPT
                          !.vx = [i \in AtomIdx |-> IF i < n THEN sc(@[i]) ELSE @[i]],
                          !.vy = [i \in AtomIdx |-> IF i < n THEN sc(@[i]) ELSE @[i]],
                          !.px = [i \in AtomIdx |-> IF i < n THEN sc(@[i]) ELSE @[i]],
                          !.py = [i \in AtomIdx |-> IF i < n THEN sc(@[i]) ELSE @[i]]],
             !.obstacles = IF nObs = 0 THEN e.obstacles
                           ELSE [e.obstacles EXCEPT
                                   !.vx = [j \in ObstIdx |-> IF j < nObs THEN sc(@[j]) ELSE @[j]],
                                   !.vy = [j \in ObstIdx |-> IF j < nObs THEN sc(@[j]) ELSE @[j]]]]

\* ---------------------------------------------------------------- integrate
\* the working state of the stepping helpers, from the engine's variables
Working ==
  [atoms |-> atoms, obstacles |-> obstacles, cellList |-> cellList,
   neighborList |-> neighborList, updateNeighborList |-> updateNeighborList,
   lj |-> ljForcePairs, cb |-> coulombForcePairs,
   tcip |-> temperatureChangeInProgress, tw |-> T_windowed,
   time |-> time, err |-> "none"]

\* The rest of a turn of the loop of integrate once the accelerations
\* a(t + dt) are in c: pin, second half-kick, obstacles, thermostat.
afterForces(c, dt) ==
  adjustTemperature(
    [c EXCEPT
       \* Calculate v(t + dt) using v(t + 0.5 * dt) and a(t + dt).
       !.atoms = halfUpdateVelocity(pinAtoms(c.atoms, N), N, dt),
       \* Move obstacles using very simple integration.
       !.obstacles = IF N_obstacles = 0 THEN c.obstacles
                     ELSE updateObstaclesPosition(c.obstacles, 0, N_obstacles, dt, size)],
    N, N_obstacles)

\* The rest of a turn once the positions r(t + dt) are in b, unless the
\* drift threw: accumulate accelerations into a(t + dt), and the rest.
afterDrift(b, dt) ==
  IF b.err # "none" THEN b
  ELSE afterForces(updateParticlesAccelerations(b, N), dt)

\* One turn of the loop of integrate, the iloop-th: time, v(t + 0.5 * dt)
\* from v(t) and a(t), r(t + dt) from v(t + 0.5 * dt), and the rest.
integrateStep(e, tStart, iloop, dt) ==
  afterDrift(
    updateParticlesPosition(
      [e EXCEPT !.time = tStart + iloop * dt,
                !.atoms = halfUpdateVelocity(e.atoms, N, dt)],
      0, N, N_obstacles, dt, size),
    dt)

RECURSIVE integrateLoop(_, _, _, _, _)
integrateLoop(e, tStart, iloop, steps, dt) ==
  IF iloop > steps \/ e.err # "none" THEN e
  ELSE integrateLoop(integrateStep(e, tStart, iloop, dt), tStart, iloop + 1, steps, dt)

\* the assignment of a working state to the engine's variables
Commit(e) ==
  /\ atoms' = e.atoms
  /\ obstacles' = e.obstacles
  /\ cellList' = e.cellList
  /\ neighborList' = e.neighborList
  /\ updateNeighborList' = e.updateNeighborList
  /\ ljForcePairs' = e.lj
  /\ coulombForcePairs' = e.cb
  /\ temperatureChangeInProgress' = e.tcip
  /\ T_windowed' = e.tw
  /\ time' = e.time

\* Atoms of the model have a mass: a mass of 0 makes 1 / mass infinite.
MassesPositive == \A i \in AtomIdx : i < N => atoms.mass[i] > 0

\* the end of integrate: the working state e that the loop left is the
\* engine's, and the pressure buffers advance unless a step threw
integrateEnd(e, duration) ==
  /\ e.err # "inexact"
  /\ Commit(e)
  /\ IF e.err = "none"
       THEN /\ pressureBuffers' = updateBuffers(pressureBuffers, duration)
            /\ Returned("integrate")
       ELSE /\ UNCHANGED pressureBuffers
            /\ Threw("integrate", e.err)

\* integrate(duration, _dt)
Integrate(duration, dt) ==
  /\ time <= MaxTime
  /\ IF ~atomsHaveBeenCreated
       THEN /\ Threw("integrate", "integrate called before atoms created")
            /\ UNCHANGED <<atoms, obstacles, pressureBuffers, listVars, forceVars,
                           temperatureChangeInProgress, T_windowed, time>>
     ELSE IF neighborList = Undefined
       THEN \* no atom was ever added: neighborList.shouldUpdate of undefined throws
            IF time = 0 \/ duration \div dt >= 1
              THEN /\ Threw("integrate", "TypeError")
                   /\ time' = IF time = 0 THEN time ELSE time + dt
                   /\ UNCHANGED <<atoms, obstacles, pressureBuffers, listVars, forceVars,
                                  temperatureChangeInProgress, T_windowed>>
              ELSE /\ Returned("integrate")
                   /\ pressureBuffers' = updateBuffers(pressureBuffers, duration)
                   /\ UNCHANGED <<atoms, obstacles, listVars, forceVars,
                                  temperatureChangeInProgress, T_windowed, time>>
     ELSE /\ MassesPositive
          /\ integrateEnd(integrateLoop(IF time = 0
                                          THEN updateParticlesAccelerations(Working, N)
                                          ELSE Working,
                                        time, 1, duration \div dt, dt),
                          duration)
  /\ UNCHANGED <<flagVars, useCoulombInteraction, useLennardJonesInteraction,
                 gravitationalField, viscosity, useThermostat, T_target, chargeVars,
                 N, atomsLength, elementVars, elementUsed, bondVars, N_obstacles, size,
                 snapshot>>

\* ----------------------------------------------------------- minimizeEnergy
\* The model's lengths are whole nanometres, so its steepest descent moves an
\* atom by whole nanometres: stepLength is 1 (for 1e-3), every non-zero
\* acceleration is above accThreshold (1e-4), and the displacement
\* a * stepLength / maxAcc is cut to its integral part.
stepLength == 1
\* Most iterations of the descent (iterLimit, 3000 in the code).
MinimizeIterLimit == 2

Trunc(a, b) == IF a >= 0 THEN a \div b ELSE -((-a) \div b)

maxAcceleration(at, n) ==
  SetMax({Abs(at.ax[i]) : i \in {k \in AtomIdx : k < n}}
         \cup {Abs(at.ay[i]) : i \in {k \in AtomIdx : k < n}})

RECURSIVE descend(_, _, _, _)
\* the loop over the atoms in one iteration of minimizeEnergy, from atom i on
descend(e, i, n, maxAcc) ==
  IF i >= n THEN e
  ELSE LET at == e.atoms
           moved == [at EXCEPT !.x[i] = @ + Trunc(at.ax[i] * stepLength, maxAcc),
                               !.y[i] = @ + Trunc(at.ay[i] * stepLength, maxAcc)]
       IN descend(bounceParticleOffObstacles(
                    [e EXCEPT !.atoms = bounceParticleOffWalls(moved, i, size)],
                    i, N_obstacles, at.x[i], at.y[i], FALSE),
                  i + 1, n, maxAcc)

RECURSIVE minimizeLoop(_, _)
minimizeLoop(e, iter) ==
  LET maxAcc == maxAcceleration(e.atoms, N) IN
  IF ~(maxAcc > 0 /\ iter < MinimizeIterLimit) THEN e
  ELSE minimizeLoop(updateParticlesAccelerations(descend(e, 0, N, maxAcc), N), iter + 1)

\* minimizeEnergy()
MinimizeEnergy ==
  /\ neighborList # Undefined
  /\ MassesPositive
  /\ Commit(minimizeLoop(updateParticlesAccelerations(Working, N), 0))
  /\ Returned("minimizeEnergy")
  /\ UNCHANGED <<flagVars, useCoulombInteraction, useLennardJonesInteraction,
                 gravitationalField, viscosity, useThermostat, T_target, chargeVars,
                 N, atomsLength, elementVars, elementUsed, bondVars, N_obstacles,
                 pressureBuffers, size, snapshot>>

\* --------------------------------------------------------- snapshot, restore
\* getState() and clone() of each of its four handles: the atoms container,
\* the obstacles container, the time and the pressure buffers, copied
GetState ==
  /\ atoms # Undefined
  /\ snapshot' = [atoms |-> atoms, obstacles |-> obstacles, time |-> time,
                  pressureBuffers |-> pressureBuffers]
  /\ Returned("getState")
  /\ UNCHANGED <<flagVars, toggleVars, chargeVars, atomVars, elementVars, elementUsed,
                 bondVars, obstacleVars, listVars, forceVars, size, time>>

\* restore(state) of each handle with what GetState cloned: the arrays of
\* the containers are overwritten, the time is set with setTime
Restore ==
  /\ snapshot # Undefined
  /\ atoms' = snapshot.atoms
  /\ obstacles' = IF snapshot.obstacles = Undefined THEN obstacles ELSE snapshot.obstacles
  /\ time' = snapshot.time
  /\ pressureBuffers' = snapshot.pressureBuffers
  /\ Returned("restore")
  /\ UNCHANGED <<flagVars, toggleVars, chargeVars, N, atomsLength, elementVars, elementUsed,
                 bondVars, N_obstacles, listVars, forceVars, size, snapshot>>

\* ------------------------------------------------------------------ inputs
\* setSize: two domains other than the default one
SizeInputs == {<<5, 5>>, <<8, 6>>}
\* initializeElements: a light and a heavy element of sigma 2 (radius 1)
ElementsInput == <<[mass |-> 1, epsilon |-> 1, sigma |-> 2],
                   [mass |-> 2, epsilon |-> 1, sigma |-> 2]>>
\* createAtomsArray: no argument, 0, 1.5, MaxAtoms, 1001
ValidNum == <<[floor |-> MaxAtoms, integral |-> TRUE]>>
NumInputs == {Undefined,
              <<[floor |-> 0, integral |-> TRUE]>>,
              <<[floor |-> 1, integral |-> FALSE]>>,
              ValidNum,
              <<[floor |-> N_MAX + 1, integral |-> TRUE]>>}
\* the errors createAtomsArray raises for its argument
NumErrors == {"num missing", "num not integral", "num below N_MIN", "num above N_MAX"}

Atom(el, x, y, vx, vy, q) ==
  [element |-> el, x |-> x, y |-> y, vx |-> vx, vy |-> vy, charge |-> q,
   friction |-> 0, pinned |-> 0]

\* ------------------------------------------------------- the setup protocol
SetupAtomInputs == {Atom(0, 2, 2, 0, 0, 0)}

SetupNext ==
  \/ \E v \in SizeInputs : SetSize(v)
  \/ InitializeElements(ElementsInput)
  \/ AddElement(ElementsInput[1])
  \/ \E num \in NumInputs : CreateAtomsArray(num)
  \/ \E props \in SetupAtomInputs : AddAtom(props)
  \/ Integrate(1, 1)

SetupSpec == Init /\ [][SetupNext]_vars

\* every variable of the engine (all but the record of the last call)
engineState == <<flagVars, toggleVars, chargeVars, atomVars, elementVars, elementUsed,
                 bondVars, obstacleVars, listVars, forceVars, size, time, snapshot,
                 extVars>>

\* C9: setSize succeeds at most once.  Once a setSize has succeeded (the
\* size is no longer the default of construction, which no input of
\* SizeInputs equals), every later setSize raises an error and leaves the
\* size as it is, also before any atoms array was created.
C9_SetSizeAtMostOnce ==
  [][(size # <<DefaultSize, DefaultSize>> /\ lastCall' = "setSize" /\ ops' = ops + 1)
       => (error' # "none" /\ size' = size)]_vars

\* C10: createAtomsArray(num) with num missing, not integral, below 1 or
\* above 1000 raises an error and changes no state of the engine.
C10_InvalidNumChangesNothing ==
  [][(lastCall' = "createAtomsArray" /\ ops' = ops + 1 /\ error' \in NumErrors)
       => UNCHANGED engineState]_vars

\* C10: a setSize was refused although no atoms array exists; this needs a
\* createAtomsArray that failed on its argument.
C10_SetSizeRefusedWithoutAtoms ==
  /\ lastCall = "setSize"
  /\ error = "size already set"
  /\ atoms = Undefined

\* ------------------------------------------------- atoms and their elements
AtomsAtomInputs ==
  {Atom(0, 2, 2, 1, 0, 0),
   Atom(1, 4, 2, 0, 0, 1),
   \* an atom given no element
   [x |-> 3, y |-> 3, vx |-> 0, vy |-> 0, charge |-> 0, friction |-> 0, pinned |-> 0]}
AtomPropInputs == {[charge |-> 0], [charge |-> 1], [mass |-> 2], [element |-> 1], [vx |-> 2]}
ElementPropInputs == {[mass |-> 2], [sigma |-> 4]}

AtomsNext ==
  \/ ops < MaxAtomsOps /\ InitializeElements(ElementsInput)
  \/ ops < MaxAtomsOps /\ CreateAtomsArray(ValidNum)
  \/ ops < MaxAtomsOps /\ \E props \in AtomsAtomInputs : AddAtom(props)
  \/ ops < MaxAtomsOps /\ \E i \in AtomIdx, props \in AtomPropInputs : SetAtomProperties(i, props)
  \/ ops < MaxAtomsOps
       /\ \E i \in ElemIdx, props \in ElementPropInputs : SetElementProperties(i, props)
  \/ ops < MaxAtomsOps /\ Integrate(1, 1)
  \/ ops < MaxAtomsOps /\ MinimizeEnergy

AtomsSpec == Init /\ [][AtomsNext]_vars

\* the atoms of the engine
Atoms == {i \in AtomIdx : i < N}

\* C1: after every public operation that changes atoms and returns, every
\* atom has px = mass * vx and py = mass * vy.
C1_MomentumIsMassTimesVelocity ==
  (/\ lastCall \in {"addAtom", "setAtomProperties", "setElementProperties",
                    "integrate", "minimizeEnergy"}
   /\ error = "none"
   /\ atoms # Undefined)
    => \A i \in Atoms : /\ atoms.px[i] = atoms.mass[i] * atoms.vx[i]
                        /\ atoms.py[i] = atoms.mass[i] * atoms.vy[i]

\* C1: setElementProperties(0, {mass: 2}) has doubled the mass of the one
\* atom, of velocity 1, and left its momentum at 1.
C1_StaleMomentum ==
  /\ lastCall = "setElementProperties"
  /\ N = 1
  /\ atoms.vx[0] = 1 /\ atoms.mass[0] = 2 /\ atoms.px[0] = 1

\* C2: after every public operation that returns, the mass and the radius
\* of every atom are those of its element.
C2_MassAndRadiusOfElement ==
  (error = "none" /\ atoms # Undefined)
    => \A i \in Atoms : /\ atoms.mass[i] = elements.mass[atoms.element[i]]
                        /\ atoms.radius[i] = elements.radius[atoms.element[i]]

\* C2: setAtomProperties(0, {mass: 2}) has given an atom of element 0, of
\* mass 1, the mass 2.
C2_MassSetApart ==
  /\ lastCall = "setAtomProperties"
  /\ error = "none"
  /\ N >= 1
  /\ atoms.element[0] = 0 /\ elementUsed[0]
  /\ elements.mass[0] = 1 /\ atoms.mass[0] = 2

\* ---------------------------------------------------- snapshot and charges
SnapshotAtomInputs == {Atom(0, 2, 2, 0, 0, 0), Atom(1, 4, 2, 0, 0, 1)}
ChargeInputs == {[charge |-> 0], [charge |-> 1]}

SnapshotNext ==
  \/ ops < MaxAtomsOps /\ InitializeElements(ElementsInput)
  \/ ops < MaxAtomsOps /\ CreateAtomsArray(ValidNum)
  \/ ops < MaxAtomsOps /\ \E props \in SnapshotAtomInputs : AddAtom(props)
  \/ ops < MaxAtomsOps /\ \E i \in AtomIdx, props \in ChargeInputs : SetAtomProperties(i, props)
  \/ ops < MaxAtomsOps /\ GetState
  \/ ops < MaxAtomsOps /\ Restore

SnapshotSpec == Init /\ [][SnapshotNext]_vars

\* C5: chargedAtomsList holds exactly the atoms with a charge, each once,
\* and hasChargedAtoms says whether there is one.
C5_ChargedAtomsListExact ==
  (error = "none" /\ atoms # Undefined)
    => LET charged == {i \in Atoms : atoms.charge[i] # 0} IN
       /\ {chargedAtomsList[k] : k \in 1 .. Len(chargedAtomsList)} = charged
       /\ Len(chargedAtomsList) = Cardinality(charged)
       /\ hasChargedAtoms = (charged # {})

\* C5: a restore has taken the charge of atom 0 back to 0 and left the
\* atom in chargedAtomsList.
C5_ListStaleAfterRestore ==
  /\ lastCall = "restore"
  /\ N >= 1
  /\ atoms.charge[0] = 0
  /\ chargedAtomsList = <<0>>
  /\ hasChargedAtoms

\* ------------------------------------------------------------ radial bonds
BondAtomInputs == {Atom(0, 2, 2, 0, 0, 1), Atom(0, 3, 2, 0, 0, 1), Atom(0, 8, 8, 0, 0, 0)}
BondInputs == {[atom1 |-> 0, atom2 |-> 1, length |-> 1, strength |-> 1]}
BondPropInputs == {[atom2 |-> 2], [length |-> 2]}

BondsNext ==
  \/ InitializeElements(ElementsInput)
  \/ CreateAtomsArray(ValidNum)
  \/ \E props \in BondAtomInputs : AddAtom(props)
  \/ \E props \in BondInputs : AddRadialBond(props)
  \/ \E i \in BondIdx, props \in BondPropInputs : SetRadialBondProperties(i, props)
  \/ UseCoulombInteraction(TRUE)
  \/ Integrate(1, 1)

BondsSpec == Init /\ [][BondsNext]_vars

\* some radial bond joins atoms i and j
Joined(i, j) ==
  \E k \in BondIdx :
     /\ k < N_radialBonds
     /\ {radialBonds.atom1[k], radialBonds.atom2[k]} = {i, j}

\* C6: radialBondMatrix[i][j] iff radialBondMatrix[j][i] iff some radial
\* bond has the endpoints i and j.
C6_MatrixIffBond ==
  radialBondMatrix # Undefined
    => \A i, j \in AtomIdx :
         /\ radialBondMatrix[i][j] = radialBondMatrix[j][i]
         /\ radialBondMatrix[i][j] = Joined(i, j)

\* C6: of two bonds between atoms 0 and 1 one was moved to atoms 0 and 2,
\* and the matrix no longer holds the pair of the other.
C6_SharedPairCleared ==
  /\ N_radialBonds = 2
  /\ radialBonds.atom1[0] = 0 /\ radialBonds.atom2[0] = 1
  /\ radialBonds.atom1[1] = 0 /\ radialBonds.atom2[1] = 2
  /\ ~radialBondMatrix[0][1]

\* C7: the acceleration computation of an integrate that returned added no
\* Lennard-Jones and no Coulomb force between two atoms that a radial bond joins.
C7_NoPairForceAcrossBond ==
  (lastCall = "integrate" /\ error = "none")
    => \A p \in ljForcePairs \cup coulombForcePairs : ~Joined(p[1], p[2])

\* C7: atoms 0 and 1 are joined by bond 0 and received a Lennard-Jones force.
C7_BondedPairGotLJ ==
  /\ lastCall = "integrate"
  /\ error = "none"
  /\ N_radialBonds >= 1
  /\ radialBonds.atom1[0] = 0 /\ radialBonds.atom2[0] = 1
  /\ (<<0, 1>> \in ljForcePairs \/ <<1, 0>> \in ljForcePairs)

\* ------------------------------------------------------- walls, obstacles
StepAtomInputs == {Atom(0, 5, 5, 0, 0, 0), Atom(0, 1, 5, -9, 0, 0), Atom(0, 1, 5, 3, 0, 0)}

Obstacle(x, y, mass, vx, westProbe) ==
  [x |-> x, y |-> y, width |-> 2, height |-> 2, mass |-> mass, vx |-> vx, vy |-> 0,
   externalFx |-> 0, externalFy |-> 0, friction |-> 0,
   westProbe |-> westProbe, northProbe |-> 0, eastProbe |-> 0, southProbe |-> 0]
\* a movable obstacle that drifts east, and an immovable one with a probe
ObstacleInputs == {Obstacle(1, 4, 1, 2, 0), Obstacle(2, 4, Infinity, 0, 1)}

ObstaclePropInputs == {[x |-> 6], [westProbe |-> 1]}

StepNext ==
  \/ ops < MaxStepOps /\ InitializeElements(ElementsInput)
  \/ ops < MaxStepOps /\ CreateAtomsArray(ValidNum)
  \/ ops < MaxStepOps /\ \E props \in StepAtomInputs : AddAtom(props)
  \/ ops < MaxStepOps /\ \E props \in ObstacleInputs : AddObstacle(props)
  \/ ops < MaxStepOps /\ \E props \in ObstaclePropInputs : SetObstacleProperties(0, props)
  \/ ops < MaxStepOps /\ SetViscosity(0)
  \/ ops < MaxStepOps /\ SetGravitationalField(2)
  \/ ops < MaxStepOps /\ Integrate(1, 1)

StepSpec == Init /\ [][StepNext]_vars

\* every atom is between the walls: r <= x <= Lx - r and r <= y <= Ly - r
InsideWalls ==
  \A i \in Atoms :
     /\ atoms.radius[i] <= atoms.x[i] /\ atoms.x[i] <= size[1] - atoms.radius[i]
     /\ atoms.radius[i] <= atoms.y[i] /\ atoms.y[i] <= size[2] - atoms.radius[i]

\* no atom is strictly inside an obstacle inflated by the atom's radius
NoOverlap ==
  \A i \in Atoms : \A j \in ObstIdx :
     j < N_obstacles =>
       ~(/\ ~IsNaN(obstacles.x[j]) /\ ~IsNaN(obstacles.y[j])
         /\ atoms.x[i] > obstacles.x[j] - atoms.radius[i]
         /\ atoms.x[i] < obstacles.x[j] + obstacles.width[j] + atoms.radius[i]
         /\ atoms.y[i] > obstacles.y[j] - atoms.radius[i]
         /\ atoms.y[i] < obstacles.y[j] + obstacles.height[j] + atoms.radius[i])

\* an integrate of one step that raised no error
IntegrateReturned == lastCall' = "integrate" /\ ops' = ops + 1 /\ error' = "none"

\* C3: atoms that were between the walls before a step that raised no
\* error are between the walls after it.
C3_AtomsStayInsideWalls ==
  [][(IntegrateReturned /\ InsideWalls) => InsideWalls']_vars

\* C3: with no obstacle in the default domain of side 10, the atom of
\* radius 1 is at x = 10 after a step.
C3_AtomBeyondRightWall ==
  /\ lastCall = "integrate"
  /\ error = "none"
  /\ size = <<DefaultSize, DefaultSize>>
  /\ N = 1 /\ N_obstacles = 0
  /\ atoms.radius[0] = 1 /\ atoms.x[0] = DefaultSize

\* C4: if no atom overlapped an obstacle before a step that raised no
\* error, none does after it.
C4_NoAtomInsideObstacle ==
  [][(IntegrateReturned /\ NoOverlap) => NoOverlap']_vars

\* C4: the movable obstacle has drifted over the atom that rests at (5, 5).
C4_ObstacleOverAtom ==
  /\ lastCall = "integrate"
  /\ error = "none"
  /\ N = 1 /\ N_obstacles = 1
  /\ atoms.x[0] = 5 /\ atoms.y[0] = 5 /\ atoms.radius[0] = 1
  /\ obstacles.x[0] = 3 /\ obstacles.y[0] = 4

\* ------------------------------------------------------- the neighbor list
ListAtomInputs == {Atom(0, 5, 5, 0, 0, 0), Atom(0, 6, 5, 0, 0, 0)}

ListNext ==
  \/ InitializeElements(ElementsInput)
  \/ CreateAtomsArray(ValidNum)
  \/ \E props \in ListAtomInputs : AddAtom(props)
  \/ \E v \in BOOLEAN : UseLennardJonesInteraction(v)
  \/ \E i \in ElemIdx : SetElementProperties(i, [sigma |-> 4])
  \/ Integrate(1, 1)

ListSpec == Init /\ [][ListNext]_vars

\* the pair of atoms i and j received a Lennard-Jones force
GotLJ(i, j) == <<i, j>> \in ljForcePairs \/ <<j, i>> \in ljForcePairs

\* C8: in the acceleration computation that ended an integrate, made with
\* Lennard-Jones enabled and from the Verlet list (no rebuild), every pair
\* of atoms at two places that no bond joins and that is closer than the
\* Lennard-Jones cutoff of its elements received its Lennard-Jones force.
C8_NeighborListComplete ==
  (/\ lastCall = "integrate" /\ error = "none"
   /\ useLennardJonesInteraction /\ ~updateNeighborList)
    => \A i, j \in Atoms :
         (/\ i < j
          /\ SqDist(atoms, i, j) > 0
          /\ ~Joined(i, j)
          /\ SqDist(atoms, i, j) < cutoffDistance_LJ_sq[atoms.element[i]][atoms.element[j]])
           => GotLJ(i, j)

\* C8: two atoms at distance 1, Lennard-Jones enabled, a Verlet list that
\* was built while it was disabled: the pair is not in it.
C8_ListBuiltWithLJDisabled ==
  /\ lastCall = "integrate" /\ error = "none"
  /\ useLennardJonesInteraction /\ ~updateNeighborList
  /\ N = 2
  /\ SqDist(atoms, 0, 1) = 1
  /\ neighborList.list = {}
  /\ ljForcePairs = {}

\* ------------------------------------------------------------- temperature
\* Most calls of a behaviour of ThermoSpec
MaxThermoOps == 6
\* Steps of each integrate() call that relaxToTemperature makes (with the
\* defaults of integrate, duration = 100 and dt = 1, the code makes 100)
RelaxSteps == 1

\* validateTemperature(t): the error it raises, "none" if it returns.
\* parseFloat of no argument is NaN.
validateTemperature(t) ==
  IF t = Undefined \/ IsNaN(t[1]) THEN "temperature not understood"
  ELSE IF t[1] < 0 THEN "temperature less than zero"
  ELSE IF t[1] = Infinity THEN "temperature is Infinity"
  ELSE "none"

\* the errors validateTemperature raises
TemperatureErrors == {"temperature not understood", "temperature less than zero",
                      "temperature is Infinity"}

\* math.getWindowedAverager(getWindowSize()): no value given yet
newWindowedAverager == [sum |-> 0, count |-> 0]

\* useThermostat(v)
UseThermostat(v) ==
  /\ useThermostat' = v
  /\ Returned("useThermostat")
  /\ UNCHANGED <<flagVars, useCoulombInteraction, useLennardJonesInteraction,
                 gravitationalField, viscosity, temperatureChangeInProgress, T_target,
                 T_windowed, chargeVars, atomVars, elementVars, elementUsed, bondVars,
                 obstacleVars, listVars, forceVars, size, time, snapshot>>

\* setTargetTemperature(v)
SetTargetTemperature(v) ==
  /\ IF validateTemperature(v) # "none"
       THEN /\ Threw("setTargetTemperature", validateTemperature(v))
            /\ UNCHANGED T_target
       ELSE /\ T_target' = v
            /\ Returned("setTargetTemperature")
  /\ UNCHANGED <<flagVars, useCoulombInteraction, useLennardJonesInteraction,
                 gravitationalField, viscosity, useThermostat,
                 temperatureChangeInProgress, T_windowed, chargeVars, atomVars,
                 elementVars, elementUsed, bondVars, obstacleVars, listVars, forceVars,
                 size, time, snapshot>>

\* A call of relaxToTemperature is in progress: its loop has not ended.
Relaxing == lastCall = "relaxToTemperature" /\ error = "running"

\* relaxToTemperature(T) up to its loop: the target is assigned, then
\* validated, then beginTransientTemperatureChange().
RelaxToTemperature(T) ==
  /\ ops < MaxOps
  /\ lastCall' = "relaxToTemperature"
  /\ ops' = ops + 1
  /\ T_target' = IF T # Undefined THEN T ELSE T_target
  /\ IF validateTemperature(T_target') # "none"
       THEN /\ error' = validateTemperature(T_target')
            /\ UNCHANGED <<temperatureChangeInProgress, T_windowed>>
       ELSE /\ temperatureChangeInProgress' = TRUE
            /\ T_windowed' = newWindowedAverager
            /\ error' = "running"
  /\ UNCHANGED <<flagVars, useCoulombInteraction, useLennardJonesInteraction,
                 gravitationalField, viscosity, useThermostat, chargeVars, atomVars,
                 elementVars, elementUsed, bondVars, obstacleVars, listVars, forceVars,
                 size, time, snapshot, extVars>>

\* the end of an integrate() of the loop of relaxToTemperature: an error
\* of integrate leaves relaxToTemperature, a cleared flag ends the loop
\* and the call returns, otherwise the loop goes on
relaxIntegrateEnd(e, duration) ==
  /\ e.err # "inexact"
  /\ Commit(e)
  /\ pressureBuffers' = IF e.err = "none" THEN updateBuffers(pressureBuffers, duration)
                        ELSE pressureBuffers
  /\ error' = IF e.err # "none" THEN e.err
              ELSE IF e.tcip THEN "running" ELSE "none"

\* One turn of while (temperatureChangeInProgress) engine.integrate()
RelaxIntegrate ==
  /\ Relaxing
  /\ temperatureChangeInProgress
  /\ time <= MaxTime
  /\ IF ~atomsHaveBeenCreated
       THEN /\ error' = "integrate called before atoms created"
            /\ UNCHANGED <<atoms, obstacles, pressureBuffers, listVars, forceVars,
                           temperatureChangeInProgress, T_windowed, time>>
     ELSE IF neighborList = Undefined
       THEN /\ error' = "TypeError"
            /\ time' = IF time = 0 THEN time ELSE time + 1
            /\ UNCHANGED <<atoms, obstacles, pressureBuffers, listVars, forceVars,
                           temperatureChangeInProgress, T_windowed>>
     ELSE /\ MassesPositive
          /\ relaxIntegrateEnd(integrateLoop(IF time = 0
                                               THEN updateParticlesAccelerations(Working, N)
                                               ELSE Working,
                                             time, 1, RelaxSteps, 1),
                               RelaxSteps)
  /\ UNCHANGED <<flagVars, useCoulombInteraction, useLennardJonesInteraction,
                 gravitationalField, viscosity, useThermostat, T_target, chargeVars,
                 N, atomsLength, elementVars, elementUsed, bondVars, N_obstacles, size,
                 snapshot, extVars, lastCall, ops>>

\* temperatures: no argument, NaN, a negative one, Infinity, 0 and 4
TemperatureInputs == {Undefined, <<NaN>>, <<-1>>, <<Infinity>>, <<0>>, <<4>>}
\* an atom at rest and one that moves east
ThermoAtomInputs == {Atom(0, 5, 5, 0, 0, 0), Atom(0, 3, 5, 1, 0, 0)}

ThermoNext ==
  \/ ops < MaxThermoOps /\ ~Relaxing /\ InitializeElements(ElementsInput)
  \/ ops < MaxThermoOps /\ ~Relaxing /\ CreateAtomsArray(ValidNum)
  \/ ops < MaxThermoOps /\ ~Relaxing /\ \E props \in ThermoAtomInputs : AddAtom(props)
  \/ ops < MaxThermoOps /\ ~Relaxing /\ \E v \in TemperatureInputs : SetTargetTemperature(v)
  \/ ops < MaxThermoOps /\ ~Relaxing /\ \E v \in BOOLEAN : UseThermostat(v)
  \/ ops < MaxThermoOps /\ ~Relaxing /\ \E T \in TemperatureInputs : RelaxToTemperature(T)
  \/ RelaxIntegrate
  \/ ops < MaxThermoOps /\ ~Relaxing /\ Integrate(1, 1)

ThermoSpec == Init /\ [][ThermoNext]_vars

\* C11: a setTargetTemperature or relaxToTemperature that raised one of
\* the errors of validateTemperature (temperature NaN, negative or
\* infinite) left T_target and temperatureChangeInProgress as they were.
C11_InvalidTemperatureChangesNothing ==
  [][(/\ lastCall' \in {"setTargetTemperature", "relaxToTemperature"}
      /\ ops' = ops + 1
      /\ error' \in TemperatureErrors)
       => UNCHANGED <<T_target, temperatureChangeInProgress>>]_vars

\* C11: relaxToTemperature raised the error of a negative temperature, and
\* that temperature is the target.
C11_NegativeTargetKept ==
  /\ lastCall = "relaxToTemperature"
  /\ error = "temperature less than zero"
  /\ T_target = <<-1>>

\* ------------------------------------------------------------ pinned atoms
\* a pinned atom that was given a velocity, and a free atom at rest
PinAtomInputs == {With(Atom(0, 3, 5, 1, 0, 0), "pinned", 1), Atom(0, 5, 5, 0, 0, 0)}
PinPropInputs == {[pinned |-> 1], [pinned |-> 0], [vx |-> 1]}

PinNext ==
  \/ ops < MaxStepOps /\ InitializeElements(ElementsInput)
  \/ ops < MaxStepOps /\ CreateAtomsArray(ValidNum)
  \/ ops < MaxStepOps /\ \E props \in PinAtomInputs : AddAtom(props)
  \/ ops < MaxStepOps /\ \E i \in AtomIdx, props \in PinPropInputs :
                            i < N /\ SetAtomProperties(i, props)
  \/ ops < MaxStepOps /\ SetGravitationalField(2)
  \/ ops < MaxStepOps /\ Integrate(1, 1)

PinSpec == Init /\ [][PinNext]_vars

\* C12: an atom that is pinned when integrate is called is at the same
\* place when integrate returns.
C12_PinnedAtomStays ==
  [][IntegrateReturned
       => \A i \in Atoms :
            atoms.pinned[i] # 0 => (atoms.x[i]' = atoms.x[i] /\ atoms.y[i]' = atoms.y[i])]_vars

\* C12: the pinned atom that was added at (3, 5) with velocity 1 is at
\* (4, 5) after the first integrate, with no field acting.
C12_PinnedAtomDrifted ==
  /\ lastCall = "integrate" /\ error = "none"
  /\ time = 1 /\ gravitationalField = 0
  /\ N = 1
  /\ atoms.pinned[0] = 1
  /\ atoms.x[0] = 4 /\ atoms.y[0] = 5

\* ------------------------------------------------------ thermostat rescaling
\* every velocity and momentum of the atoms in use is a finite number
VelocitiesFinite ==
  \A i \in Atoms :
     /\ ~IsNaN(atoms.vx[i]) /\ ~IsNaN(atoms.vy[i])
     /\ ~IsNaN(atoms.px[i]) /\ ~IsNaN(atoms.py[i])

\* the instantaneous temperature, in the unit in which T = twoKE / N,
\* equals the target
TemperatureIsTarget ==
  twoKE(atoms, N, obstacles, N_obstacles) = T_target[1] * N

\* C13: after an integrate made with the thermostat on and a valid target
\* (so that adjustTemperature rescaled in its step), the temperature
\* computed from the velocities is T_target and every velocity and momentum
\* is finite, whatever the velocities were before, all zero included.
C13_RescaledToTarget ==
  [][(/\ IntegrateReturned
      /\ useThermostat
      /\ N > 0
      /\ validateTemperature(T_target) = "none")
       => (VelocitiesFinite' /\ TemperatureIsTarget')]_vars

\* C13: the thermostat is on with target 4, and the one atom, which was at
\* rest, has a velocity that is not a number after integrate returned.
C13_RestRescaledToNaN ==
  /\ lastCall = "integrate" /\ error = "none"
  /\ useThermostat
  /\ T_target = <<4>>
  /\ N = 1
  /\ atoms.x[0] = 5 /\ atoms.y[0] = 5
  /\ IsNaN(atoms.vx[0]) /\ IsNaN(atoms.px[0])

\* --------------------------------------------------- relaxToTemperature
\* T_windowed returns the same average before and after the step
SameWindowedAverage ==
  /\ T_windowed.count > 0
  /\ T_windowed.sum' * T_windowed.count = T_windowed.sum * T_windowed.count'

\* C14: relaxToTemperature(T) with a valid T terminates.  Its loop calls
\* integrate() until the flag is cleared, and but for the accelerations
\* computed at time 0 a turn depends only on the atoms, the obstacles and
\* the windowed average: so every turn that leaves the loop running has
\* changed one of them, a turn that changes none being repeated for ever.
C14_RelaxTurnChangesState ==
  [][(Relaxing /\ Relaxing' /\ time > 0 /\ time' # time)
       => (atoms' # atoms \/ obstacles' # obstacles \/ ~SameWindowedAverage)]_vars

\* C14: relaxToTemperature(4) is in its loop with the one atom at rest and
\* no force acting: two turns were made and the flag is still set.
C14_RelaxStuckAtRest ==
  /\ Relaxing /\ temperatureChangeInProgress
  /\ T_target = <<4>>
  /\ N = 1
  /\ atoms.vx[0] = 0 /\ atoms.vy[0] = 0 /\ atoms.ax[0] = 0 /\ atoms.ay[0] = 0
  /\ T_windowed = [sum |-> 0, count |-> 2]
  /\ time = 2

\* -------------------------------------------------------- snapshot, restore
\* Most calls of a behaviour of RestoreSpec
MaxRestoreOps == 9

\* setTime(t)
SetTime(t) ==
  /\ time' = t
  /\ Returned("setTime")
  /\ UNCHANGED <<flagVars, toggleVars, chargeVars, atomVars, elementVars, elementUsed,
                 bondVars, obstacleVars, listVars, forceVars, size, snapshot>>

\* clone() of every handle, with the clone of the time handle lost
cloneHandlesTimeLost ==
  [atoms |-> atoms, obstacles |-> obstacles, time |-> 0,
   pressureBuffers |-> pressureBuffers]

\* clone() of every handle of getState(): the atoms, the obstacles, the
\* time and the pressure buffers
cloneHandles ==
  [atoms |-> atoms, obstacles |-> obstacles, time |-> time,
   pressureBuffers |-> pressureBuffers]

\* what the loop of integrate leaves of the atoms and the obstacles, and
\* the error it raised
outcomeOf(e) == [atoms |-> e.atoms, obstacles |-> e.obstacles, err |-> e.err]

\* What integrate(1, 1) called in this state makes of the atoms and the
\* obstacles; Undefined where it does not reach its loop.
IntegrateOutcome ==
  IF ~atomsHaveBeenCreated \/ neighborList = Undefined \/ ~MassesPositive
    THEN Undefined
    ELSE outcomeOf(integrateLoop(IF time = 0
                                   THEN updateParticlesAccelerations(Working, N)
                                   ELSE Working,
                                 time, 1, 1, 1))

\* getState() and clone() of every handle at a point P, together with two
\* history fields that restore does not read: what integrate(1, 1) would
\* do at P (integrated) and the number of calls made once the handles are
\* cloned (clonedAt)
GetStateAtP ==
  /\ atoms # Undefined
  /\ snapshot' = With(With(cloneHandles, "integrated", IntegrateOutcome),
                      "clonedAt", ops + 1)
  /\ Returned("getState")
  /\ UNCHANGED <<flagVars, toggleVars, chargeVars, atomVars, elementVars, elementUsed,
                 bondVars, obstacleVars, listVars, forceVars, size, time>>

\* two charged atoms next to each other
RestoreAtomInputs == {Atom(0, 2, 2, 0, 0, 1), Atom(0, 3, 2, 0, 0, 1)}

RestoreNext ==
  \/ ops < MaxRestoreOps /\ InitializeElements(ElementsInput)
  \/ ops < MaxRestoreOps /\ CreateAtomsArray(ValidNum)
  \/ ops < MaxRestoreOps /\ \E props \in RestoreAtomInputs : AddAtom(props)
  \/ ops < MaxRestoreOps /\ UseCoulombInteraction(TRUE)
  \/ ops < MaxRestoreOps /\ atoms # Undefined /\ 0 < N /\ SetAtomProperties(0, [charge |-> 0])
  \/ ops < MaxRestoreOps /\ SetTime(0)
  \/ ops < MaxRestoreOps /\ GetStateAtP
  \/ ops < MaxRestoreOps /\ Restore
  \/ ops < MaxRestoreOps /\ Integrate(1, 1)

RestoreSpec == Init /\ [][RestoreNext]_vars

\* a restore that follows the getState and the clones with no call between
RoundTrip ==
  /\ lastCall = "getState" /\ error = "none"
  /\ lastCall' = "restore" /\ ops' = ops + 1

\* the engine has just been restored from handles cloned one call earlier
RoundTripMade ==
  /\ lastCall = "restore" /\ error = "none"
  /\ ops = snapshot.clonedAt + 1

C16_RestoredEngineBehavesAsAtP ==
  [][(/\ lastCall = "restore" /\ error = "none"
      /\ snapshot.integrated # Undefined
      /\ lastCall' = "integrate" /\ ops' = ops + 1)
       => (/\ atoms' = snapshot.integrated.atoms
           /\ obstacles' = snapshot.integrated.obstacles)]_vars

\* C16: after the restore atom 0 has its charge of P again, but it is not
\* in chargedAtomsList, and integrate would not do what it would have at P.
C16_RestoredChargeNotListed ==
  /\ lastCall = "restore" /\ error = "none"
  /\ useCoulombInteraction
  /\ N = 2
  /\ atoms.charge[0] = 1 /\ atoms.charge[1] = 1
  /\ chargedAtomsList = <<1>>
  /\ snapshot.integrated # Undefined
  /\ IntegrateOutcome # snapshot.integrated

\* ------------------------------------------------------- addElement, growth
\* C20: a call of addElement on an engine that has an element table ends
\* without an error and records one more element, also when the table is
\* full.
C20_AddElementNeverFailsWhenFull ==
  [][(/\ lastCall' = "addElement" /\ ops' = ops + 1
      /\ elements # Undefined)
       => (error' = "none" /\ N_elements' = N_elements + 1)]_vars

\* C20: addElement was called with the table full, and it threw; the number
\* of elements is what it was.
C20_AddElementThrewOnFullTable ==
  /\ lastCall = "addElement" /\ error = "TypeError"
  /\ elements # Undefined
  /\ N_elements = elementsLength
  /\ N_elements > 0

\* ------------------------------------------------------------ spring forces
\* Most calls of a behaviour of SpringSpec
MaxSpringOps == 7

\* arrays.create(num, 0, type) for each of the four arrays; kind is what
\* arrays.create made: typed arrays, or regular ones where the platform has
\* no typed arrays
createSpringForcesArray(num, kind) ==
  [kind |-> kind,
   slot |-> [k \in SpringIdx |->
               IF k < num THEN [atomIndex |-> 0, x |-> 0, y |-> 0, strength |-> 0]
               ELSE Undefined]]

\* extendArrays(springForces, newLength)
extendSpringForces(sf, newLength) ==
  [sf EXCEPT !.slot = [k \in SpringIdx |->
                         IF sf.slot[k] = Undefined /\ k < newLength
                           THEN [atomIndex |-> 0, x |-> 0, y |-> 0, strength |-> 0]
                           ELSE sf.slot[k]]]

\* addSpringForce(atomIndex, x, y, strength)
AddSpringForce(atomIndex, x, y, strength) ==
  /\ N_springForces < MaxSprings
  /\ \E kind \in {"typed", "regular"} :
       LET created == IF springForces = Undefined
                        THEN createSpringForcesArray(1, kind) ELSE springForces
           len0 == IF springForces = Undefined THEN 1 ELSE springForcesLength
           \* conservatively just add one spring force
           grown == IF N_springForces > len0
                      THEN extendSpringForces(created, N_springForces + 1) ELSE created
           len1 == IF N_springForces > len0 THEN N_springForces + 1 ELSE len0
           entry == [atomIndex |-> atomIndex, x |-> x, y |-> y, strength |-> strength]
           \* a write past the end of a typed array is dropped; a regular
           \* array gets one entry longer
           stored == N_springForces < len1 \/ grown.kind = "regular"
       IN /\ springForces' = IF stored
                               THEN [grown EXCEPT !.slot[N_springForces] = entry]
                               ELSE grown
          /\ springForcesLength' = IF N_springForces < len1 THEN len1
                                   ELSE IF stored THEN N_springForces + 1 ELSE len1
  /\ returned' = [arg |-> atomIndex, value |-> N_springForces]
  /\ N_springForces' = N_springForces + 1
  /\ liveSprings' = liveSprings \cup
                      {[idx |-> N_springForces, atomIndex |-> atomIndex,
                        x |-> x, y |-> y, strength |-> strength]}
  /\ Ended("addSpringForce", "none")
  /\ UNCHANGED <<flagVars, toggleVars, chargeVars, atomVars, elementVars, elementUsed,
                 bondVars, obstacleVars, listVars, forceVars, size, time, snapshot,
                 radialBondResults, outputState, moleculeVars>>

\* updateSpringForce(i, x, y).  The model calls it with an index inside the
\* arrays.
UpdateSpringForce(i, x, y) ==
  /\ IF springForces = Undefined
       THEN \* springForceX is undefined
            /\ Ended("updateSpringForce", "TypeError")
            /\ UNCHANGED <<springForces, liveSprings>>
       ELSE /\ i < springForcesLength
            /\ springForces.slot[i] # Undefined
            /\ springForces' = [springForces EXCEPT !.slot[i].x = x, !.slot[i].y = y]
            /\ liveSprings' = {IF s.idx = i THEN [s EXCEPT !.x = x, !.y = y] ELSE s :
                                 s \in liveSprings}
            /\ Ended("updateSpringForce", "none")
  /\ UNCHANGED <<springForcesLength, N_springForces, returned>>
  /\ UNCHANGED <<flagVars, toggleVars, chargeVars, atomVars, elementVars, elementUsed,
                 bondVars, obstacleVars, listVars, forceVars, size, time, snapshot,
                 radialBondResults, outputState, moleculeVars>>

\* removeSpringForce(i)
RemoveSpringForce(i) ==
  /\ N_springForces' = IF i >= N_springForces THEN N_springForces
                       ELSE N_springForces - 1
  /\ liveSprings' = {s \in liveSprings : s.idx # i}
  /\ Ended("removeSpringForce", "none")
  /\ UNCHANGED <<springForces, springForcesLength, returned>>
  /\ UNCHANGED <<flagVars, toggleVars, chargeVars, atomVars, elementVars, elementUsed,
                 bondVars, obstacleVars, listVars, forceVars, size, time, snapshot,
                 radialBondResults, outputState, moleculeVars>>

\* an atom at rest, and two anchors on either side of it
SpringAtomInputs == {Atom(0, 5, 5, 0, 0, 0)}
SpringAnchorX == {3, 7}

SpringNext ==
  \/ ops < MaxSpringOps /\ InitializeElements(ElementsInput)
  \/ ops < MaxSpringOps /\ CreateAtomsArray(ValidNum)
  \/ ops < MaxSpringOps /\ \E props \in SpringAtomInputs : AddAtom(props)
  \/ ops < MaxSpringOps /\ \E x \in SpringAnchorX : AddSpringForce(0, x, 5, 1)
  \/ ops < MaxSpringOps /\ \E i \in SpringIdx, x \in SpringAnchorX :
                              UpdateSpringForce(i, x, 5)
  \/ ops < MaxSpringOps /\ \E i \in SpringIdx : RemoveSpringForce(i)
  \/ ops < MaxSpringOps /\ Integrate(1, 1)

SpringSpec == Init /\ [][SpringNext]_vars

\* the springs that a force computation applies, each with its index
AppliedSprings ==
  {With(springForces.slot[k], "idx", k) : k \in AppliedSlots}

\* C19: the springs that a force computation applies are the springs that
\* addSpringForce added and removeSpringForce did not remove since, each at
\* the index that addSpringForce returned for it.
C19_AppliedSpringsAreLive == AppliedSprings = liveSprings

\* C19: two springs were added, removeSpringForce(0) was called, and the
\* integrate that followed pulled the atom to the anchor of spring 0; spring
\* 1, which was not removed, is not applied.
C19_RemovedSpringStillPulls ==
  /\ lastCall = "integrate" /\ error = "none"
  /\ N = 1 /\ N_springForces = 1
  /\ liveSprings = {[idx |-> 1, atomIndex |-> 0, x |-> 7, y |-> 5, strength |-> 1]}
  /\ AppliedSprings = {[idx |-> 0, atomIndex |-> 0, x |-> 3, y |-> 5, strength |-> 1]}
  /\ atoms.x[0] < 5

\* ---------------------------------------------------------------- molecules
\* Most calls of a behaviour of MoleculeSpec
MaxMoleculeOps == 5

InSeq(a, seq) == \E k \in 1 .. Len(seq) : seq[k] = a

\* getBondedAtoms(i) that looks at the first atom of a bond only
getBondedAtomsOfAtom1(i) ==
  IF radialBonds = Undefined THEN << >>
  ELSE LET F[j \in 0 .. MaxRadialBonds] ==
             IF j >= N_radialBonds THEN << >>
             ELSE (IF radialBonds.atom1[j] = i THEN <<radialBonds.atom2[j]>> ELSE << >>)
                  \o F[j + 1]
       IN F[0]

\* getBondedAtoms(i): all atoms directly bonded to atom i, in the order of
\* the bonds
getBondedAtoms(i) ==
  IF radialBonds = Undefined THEN << >>
  ELSE LET F[j \in 0 .. MaxRadialBonds] ==
             IF j >= N_radialBonds THEN << >>
             ELSE (IF radialBonds.atom1[j] = i THEN <<radialBonds.atom2[j]>> ELSE << >>)
                  \o (IF radialBonds.atom2[j] = i THEN <<radialBonds.atom1[j]>> ELSE << >>)
                  \o F[j + 1]
       IN F[0]

RECURSIVE getMoleculeAtoms(_, _)
RECURSIVE moleculeLoop(_, _, _)

\* getMoleculeAtoms(i) called with this.atomsInMolecule and this.depth as in
\* st; the result is [atomsInMolecule, depth, result], result being what
\* the call returns
getMoleculeAtoms(st, i) ==
  LET depth0 == st.depth
      l == moleculeLoop([atomsInMolecule |-> Append(st.atomsInMolecule, i),
                         depth |-> st.depth + 1,
                         result |-> << >>],
                        getBondedAtoms(i), 1)
  IN IF depth0 = 0
       THEN [atomsInMolecule |-> << >>, depth |-> 0, result |-> l.result]
       ELSE [l EXCEPT !.result = Append(@, i)]

\* moleculeAtoms = moleculeAtoms.concat(r): r is what the recursive call
\* returned and what it left in this.atomsInMolecule and this.depth
concatMoleculeAtoms(st, r) ==
  [atomsInMolecule |-> r.atomsInMolecule, depth |-> r.depth,
   result |-> st.result \o r.result]

\* the loop of getMoleculeAtoms over bondedAtoms, from its entry j
moleculeLoop(st, bondedAtoms, j) ==
  IF j > Len(bondedAtoms) THEN st
  ELSE IF InSeq(bondedAtoms[j], st.atomsInMolecule)
    THEN moleculeLoop(st, bondedAtoms, j + 1)
    ELSE moleculeLoop(
           concatMoleculeAtoms(st,
             getMoleculeAtoms([atomsInMolecule |-> st.atomsInMolecule, depth |-> st.depth],
                              bondedAtoms[j])),
           bondedAtoms, j + 1)

\* engine.getMoleculeAtoms(i)
GetMoleculeAtoms(i) ==
  /\ LET st == getMoleculeAtoms([atomsInMolecule |-> atomsInMolecule, depth |-> depth], i)
     IN /\ atomsInMolecule' = st.atomsInMolecule
        /\ depth' = st.depth
        /\ returned' = [arg |-> i, value |-> st.result]
  /\ Ended("getMoleculeAtoms", "none")
  /\ UNCHANGED <<flagVars, toggleVars, chargeVars, atomVars, elementVars, elementUsed,
                 bondVars, obstacleVars, listVars, forceVars, size, time, snapshot,
                 radialBondResults, outputState, springVars>>

\* bonds that make a chain, a triangle, a bond given twice, and a bond of an
\* atom with itself
MoleculeBondInputs ==
  {[atom1 |-> a[1], atom2 |-> a[2], length |-> 1, strength |-> 1] :
     a \in {<<0, 1>>, <<1, 2>>, <<2, 0>>, <<1, 0>>, <<1, 1>>}}

MoleculeNext ==
  \/ ops < MaxMoleculeOps /\ \E props \in MoleculeBondInputs : AddRadialBond(props)
  \/ ops < MaxMoleculeOps /\ \E i \in BondIdx : SetRadialBondProperties(i, [atom2 |-> 2])
  \/ ops < MaxMoleculeOps /\ \E i \in AtomIdx : GetMoleculeAtoms(i)

MoleculeSpec == Init /\ [][MoleculeNext]_vars

\* some radial bond has a at one end and b at the other
BondBetween(a, b) ==
  /\ radialBonds # Undefined
  /\ \E k \in BondIdx :
       /\ k < N_radialBonds
       /\ \/ radialBonds.atom1[k] = a /\ radialBonds.atom2[k] = b
          \/ radialBonds.atom1[k] = b /\ radialBonds.atom2[k] = a

RECURSIVE BondClosure(_)
\* S and every atom that a chain of radial bonds joins to an atom of S
BondClosure(S) ==
  LET T == S \cup {b \in AtomIdx : \E a \in S : BondBetween(a, b)}
  IN IF T = S THEN S ELSE BondClosure(T)

\* the atoms reachable from i through one or more radial bonds, without i
MoleculeOf(i) == BondClosure({b \in AtomIdx : BondBetween(i, b)}) \ {i}

\* C18: getMoleculeAtoms(i) returns the atoms reachable from i through one
\* or more radial bonds, without i, each once; it leaves atomsInMolecule
\* empty and depth 0 and changes no bond; and a call that follows a call
\* with the same argument returns the same.
C18_MoleculeIsBondClosure ==
  [][(lastCall' = "getMoleculeAtoms" /\ ops' = ops + 1)
       => (/\ {returned'.value[k] : k \in 1 .. Len(returned'.value)}
                = MoleculeOf(returned'.arg)
           /\ Len(returned'.value) = Cardinality(MoleculeOf(returned'.arg))
           /\ atomsInMolecule' = << >> /\ depth' = 0
           /\ UNCHANGED bondVars
           /\ (lastCall = "getMoleculeAtoms" /\ returned.arg = returned'.arg)
                => returned' = returned)]_vars

\* C18: getMoleculeAtoms was called for an atom of a triangle of bonds, and
\* returned the two other atoms.
C18_TriangleTraversed ==
  /\ lastCall = "getMoleculeAtoms"
  /\ N_radialBonds = 3
  /\ BondBetween(0, 1) /\ BondBetween(1, 2) /\ BondBetween(2, 0)
  /\ Len(returned.value) = 2
  /\ MoleculeOf(returned.arg) = AtomIdx \ {returned.arg}

\* ------------------------------------------------------- computeOutputState
\* Most calls of a behaviour of OutputSpec
MaxOutputOps == 8

\* x[i]: undefined beyond the end of the arrays of atoms
ReadAtom(at, key, i) == IF i < atomsLength THEN <<at[key][i]>> ELSE Undefined

\* the row of a bond with both ends taken from its first atom
bondPositionsOfAtom1(at, i1, i2) ==
  [x1 |-> ReadAtom(at, "x", i1), y1 |-> ReadAtom(at, "y", i1),
   x2 |-> ReadAtom(at, "x", i1), y2 |-> ReadAtom(at, "y", i1)]

\* the updated position of the two bonded atoms, saved in a row of
\* radialBondResults
bondPositions(at, i1, i2) ==
  [x1 |-> ReadAtom(at, "x", i1), y1 |-> ReadAtom(at, "y", i1),
   x2 |-> ReadAtom(at, "x", i2), y2 |-> ReadAtom(at, "y", i2)]

\* pressureBuffers.getPressureFromProbe(i, dir): a value read from the
\* buffers of probe dir of obstacle i, kept as the name of what is read
getPressureFromProbe(pb, i, dir) == [obstacle |-> i, probe |-> dir, buffers |-> pb]

\* probes[i] after the four tests of obstacle i
probesOfObstacle(old, obs, pb, i) ==
  LET row0 == IF old = Undefined THEN [d \in {} |-> 0] ELSE old
      set(row, flag, dir) == IF obs[flag][i] # 0
                               THEN Merge(row, [d \in {dir} |-> getPressureFromProbe(pb, i, dir)])
                               ELSE row
      row4 == set(set(set(set(row0, "westProbe", "west"), "northProbe", "north"),
                      "eastProbe", "east"), "southProbe", "south")
  IN IF obs.westProbe[i] # 0 \/ obs.northProbe[i] # 0
        \/ obs.eastProbe[i] # 0 \/ obs.southProbe[i] # 0
       THEN row4 ELSE old

\* the gravitational potential energy of the atoms and of the movable
\* obstacles, in MW units
gravitationalPE ==
  IF gravitationalField = 0 THEN 0
  ELSE SumOver({i \in AtomIdx : i < N},
               [i \in AtomIdx |-> atoms.mass[i] * gravitationalField * atoms.y[i]])
     + SumOver({i \in ObstIdx : i < N_obstacles /\ obstacles.mass[i] # Infinity},
               [i \in ObstIdx |-> obstacles.mass[i] * gravitationalField * obstacles.y[i]])

\* computeOutputState(state); state is Undefined or <<object>>.  Of PE the
\* gravitational terms are kept: the pair, bond and restraint potentials are
\* numbers computed from the positions and written nowhere else.  The
\* centre of mass values are copies of variables that the model does not
\* follow.
ComputeOutputState(state) ==
  /\ IF N_radialBonds > 0 /\ atoms = Undefined
       THEN \* element is undefined: element[i1] throws in the first turn
            \* of the loop over the radial bonds
            /\ Ended("computeOutputState", "TypeError")
            /\ UNCHANGED <<radialBondResults, outputState>>
       ELSE /\ radialBondResults' =
                 IF N_radialBonds = 0 THEN radialBondResults
                 ELSE [k \in BondIdx |->
                         IF k < N_radialBonds
                           THEN Merge(radialBondResults[k],
                                      bondPositions(atoms, radialBonds.atom1[k],
                                                    radialBonds.atom2[k]))
                           ELSE radialBondResults[k]]
            /\ IF state = Undefined
                 THEN \* state.pressureProbes throws
                      /\ Ended("computeOutputState", "TypeError")
                      /\ UNCHANGED outputState
                 ELSE /\ outputState' =
                           Merge(state[1],
                             [time |-> time,
                              pressureProbes |->
                                [i \in ObstIdx |->
                                   LET old == IF Has(state[1], "pressureProbes")
                                                THEN state[1].pressureProbes[i]
                                                ELSE Undefined
                                   IN IF i < N_obstacles
                                        THEN probesOfObstacle(old, obstacles, pressureBuffers, i)
                                        ELSE old],
                              PE |-> gravitationalPE,
                              KE |-> [twice |-> IF N = 0 /\ N_obstacles = 0 THEN 0
                                                ELSE twoKE(atoms, N, obstacles, N_obstacles)],
                              temperature |->
                                [twoKE |-> IF N = 0 /\ N_obstacles = 0 THEN 0
                                           ELSE twoKE(atoms, N, obstacles, N_obstacles),
                                 N |-> N]])
                      /\ Ended("computeOutputState", "none")
  /\ UNCHANGED <<springVars, moleculeVars, returned>>
  /\ UNCHANGED <<flagVars, toggleVars, chargeVars, atomVars, elementVars, elementUsed,
                 bondVars, obstacleVars, listVars, forceVars, size, time, snapshot>>

\* the two atoms that the bond of BondInputs joins, one of them moving
OutputAtomInputs == {Atom(0, 2, 2, 0, 0, 0), Atom(0, 4, 2, 1, 0, 0)}
\* no state object, a new one, the one of the call before
OutputStateInputs == {Undefined, <<[time |-> 0]>>}

OutputNext ==
  \/ ops < MaxOutputOps /\ InitializeElements(ElementsInput)
  \/ ops < MaxOutputOps /\ CreateAtomsArray(ValidNum)
  \/ ops < MaxOutputOps /\ \E props \in OutputAtomInputs : AddAtom(props)
  \/ ops < MaxOutputOps /\ \E props \in BondInputs : AddRadialBond(props)
  \/ ops < MaxOutputOps /\ AddObstacle(Obstacle(6, 6, Infinity, 0, 1))
  \/ ops < MaxOutputOps /\ SetGravitationalField(2)
  \/ ops < MaxOutputOps /\ Integrate(1, 1)
  \/ ops < MaxOutputOps /\ \E state \in OutputStateInputs \cup {<<outputState>>} :
                              state # <<Undefined>> /\ ComputeOutputState(state)

OutputSpec == Init /\ [][OutputNext]_vars

ElementOfSomeAtom(e) == atoms # Undefined /\ \E i \in AtomIdx : i < N /\ atoms.element[i] = e

\* C21: elementUsed[e] is true exactly if some atom has element e.
C21_ElementUsedIffReferenced ==
  \A e \in ElemIdx : elementUsed[e] <=> ElementOfSomeAtom(e)

\* C21: the element of the only atom was changed from 0 to 1 by
\* setAtomProperties, and element 0 is still marked as used.
C21_UnusedElementStillMarked ==
  /\ lastCall = "setAtomProperties" /\ error = "none"
  /\ N = 1
  /\ atoms.element[0] = 1
  /\ elementUsed[0] /\ elementUsed[1]

\* ------------------------------------------------- cutoffs of the used pairs
\* the elements that atoms have, as a table like elementUsed
ElementsOfAtoms == [e \in ElemIdx |-> ElementOfSomeAtom(e)]

\* C22: when an integrate has returned, and with it its last acceleration
\* computation, the side of the cells is at least the largest
\* cutoffList * sigma_ij of the pairs of elements that atoms have, and
\* maxDisplacement of the neighbor list is the least
\* (cutoffList - cutoff) * sigma_ij of these pairs.
C22_ListsFollowUsedPairs ==
  (lastCall = "integrate" /\ error = "none" /\ N > 0)
    => (/\ cellList.cellSize2 >= computeMaxCutoff2(elements, ElementsOfAtoms, N_elements)
        /\ neighborList.maxDisplacement2
             = computeNeighborListMaxDisplacement2(elements, ElementsOfAtoms, N_elements))

\* C22: sigma of the element of the atoms was raised from 2 to 4 by
\* setElementProperties, and the integrate that followed ran with the cells
\* and the maxDisplacement computed for sigma 2.
C22_CellsOfOldSigma ==
  /\ lastCall = "integrate" /\ error = "none"
  /\ N > 0
  /\ \A i \in AtomIdx : i < N => atoms.element[i] = 0
  /\ elements.sigma[0] = 4
  /\ cellList.cellSize2 = CutoffList2 * 2
  /\ neighborList.maxDisplacement2 = (CutoffList2 - 2 * cutoff) * 2

\* ---------------------------------------------- atoms that meet an obstacle
\* Most calls of a behaviour of CollideSpec
MaxCollideOps == 7

\* the working state with which the first turn of the loop of
\* integrate(1, 1), called in this state, enters updateParticlesPosition
stepStart(e) == [e EXCEPT !.time = time + 1, !.atoms = halfUpdateVelocity(e.atoms, N, 1)]

\* ... and the one that it has when the atoms before atom i are moved
beforeAtom(i) ==
  updateParticlesPosition(
    stepStart(IF time = 0 THEN updateParticlesAccelerations(Working, N) ELSE Working),
    0, i, N_obstacles, 1, size)

\* atom i drifted and bounced off the walls, in working state b
driftAtom(b, i) ==
  [b EXCEPT !.atoms = bounceParticleOffWalls(
                        [b.atoms EXCEPT !.x[i] = @ + b.atoms.vx[i],
                                        !.y[i] = @ + b.atoms.vy[i]],
                        i, size)]

\* The turn for obstacle j of the loop of bounceParticleOffObstacles for
\* atom i, as updateParticlesPosition calls it: b is the working state
\* before atom i moves, d the one after its drift; c is what the turns
\* before j left.
hitOf(b, d, c, i, j) ==
  [xPrev |-> b.atoms.x[i], yPrev |-> b.atoms.y[i],
   xi |-> d.atoms.x[i], yi |-> d.atoms.y[i],
   before |-> c,
   after |-> bounceOffObstacle(c, i, j, d.atoms.radius[i], d.atoms.x[i], d.atoms.y[i],
                               b.atoms.x[i], b.atoms.y[i], TRUE)]

hitAfterDrift(b, d, i, j) ==
  hitOf(b, d,
        obstacleLoop([atoms |-> d.atoms, obstacles |-> d.obstacles, vxPrev |-> 0, vyPrev |-> 0],
                     i, 0, j, d.atoms.radius[i], d.atoms.x[i], d.atoms.y[i],
                     b.atoms.x[i], b.atoms.y[i], TRUE),
        i, j)

hitOfAtom(b, i, j) == hitAfterDrift(b, driftAtom(b, i), i, j)

\* integrate(1, 1) called in this state gets to the drift of atom i with
\* numbers for its position and for obstacle j
ReachesHit(b, i, j) ==
  /\ b.err = "none"
  /\ ~IsNaN(b.atoms.vx[i]) /\ ~IsNaN(b.atoms.vy[i])
  /\ ~IsNaN(b.atoms.x[i]) /\ ~IsNaN(b.atoms.y[i])
  /\ Abs(b.atoms.x[i] + b.atoms.vx[i]) <= size[1] * 100
  /\ Abs(b.atoms.y[i] + b.atoms.vy[i]) <= size[2] * 100
  /\ ~IsNaN(b.obstacles.x[j]) /\ ~IsNaN(b.obstacles.y[j])

\* the atoms and obstacles of which integrate(1, 1) would test the overlap
HitTests ==
  IF ~atomsHaveBeenCreated \/ neighborList = Undefined \/ ~MassesPositive \/ time > MaxTime
    THEN {}
    ELSE {p \in AtomIdx \X ObstIdx :
            /\ p[1] < N /\ p[2] < N_obstacles
            /\ ReachesHit(beforeAtom(p[1]), p[1], p[2])}

\* an atom that moves east and one at rest, of the mass of the obstacles;
\* a heavier atom that moves east
CollideAtomInputs == {Atom(0, 1, 5, 3, 0, 0), Atom(0, 5, 5, 0, 0, 0), Atom(1, 1, 5, 3, 0, 0)}
\* a movable obstacle at rest and an immovable one, with a west probe; a
\* movable obstacle at rest that touches them from above; a movable
\* obstacle that moves east, with an east probe; a movable obstacle that
\* moves west by the width of the domain in a step
CollideObstacleInputs ==
  {Obstacle(4, 3, 1, 0, 1), Obstacle(4, 3, Infinity, 0, 1), Obstacle(4, 5, 1, 0, 0),
   With(Obstacle(1, 4, 1, 2, 0), "eastProbe", 1), Obstacle(1, 4, 1, -10, 0)}

CollideNext ==
  \/ ops < MaxCollideOps /\ InitializeElements(ElementsInput)
  \/ ops < MaxCollideOps /\ CreateAtomsArray(ValidNum)
  \/ ops < MaxCollideOps /\ \E props \in CollideAtomInputs : AddAtom(props)
  \/ ops < MaxCollideOps /\ \E props \in CollideObstacleInputs : AddObstacle(props)
  \/ ops < MaxCollideOps /\ SetViscosity(0)
  \/ ops < MaxCollideOps /\ Integrate(1, 1)
  \/ ops < MaxCollideOps /\ MinimizeEnergy

CollideSpec == Init /\ [][CollideNext]_vars

\* the inflated rectangle of obstacle j for an atom of radius r, from x and
\* y (now) or xPrev and yPrev of the obstacle
Inflated(obs, j, r, fx, fy) ==
  [left |-> obs[fx][j] - r, right |-> obs[fx][j] + obs.width[j] + r,
   bottom |-> obs[fy][j] - r, top |-> obs[fy][j] + obs.height[j] + r]

InsideRect(x, y, rect) ==
  x > rect.left /\ x < rect.right /\ y > rect.bottom /\ y < rect.top

\* the wall that the claim has chosen for hit h: the first of west, east,
\* south, north outside of which the previous position lay
WallOf(h, prev) ==
  IF h.xPrev <= prev.left THEN "west"
  ELSE IF h.xPrev >= prev.right THEN "east"
  ELSE IF h.yPrev <= prev.bottom THEN "south"
  ELSE IF h.yPrev >= prev.top THEN "north"
  ELSE "none"

\* hit h of atom i on obstacle j is as C23 has it, with now and prev the
\* inflated rectangles of the obstacle
ReflectedAtWall(h, i, now, prev) ==
  LET a0 == h.before.atoms
      a1 == h.after.atoms
      wall == WallOf(h, prev)
  IN /\ wall # "none"
     /\ wall = "west" => a1.x[i] = now.left - (h.xi - now.left) /\ a1.x[i] < now.left
     /\ wall = "east" => a1.x[i] = now.right + (now.right - h.xi) /\ a1.x[i] > now.right
     /\ wall = "south" => a1.y[i] = now.bottom - (h.yi - now.bottom) /\ a1.y[i] < now.bottom
     /\ wall = "north" => a1.y[i] = now.top + (now.top - h.yi) /\ a1.y[i] > now.top
     /\ wall \in {"west", "east"} => a1.y[i] = a0.y[i] /\ a1.vy[i] = a0.vy[i]
     /\ wall \in {"south", "north"} => a1.x[i] = a0.x[i] /\ a1.vx[i] = a0.vx[i]

\* C23: for every atom that the drift of the next step leaves inside the
\* inflated rectangle of an obstacle, one wall is chosen by the previous
\* position in the order west, east, south, north; the atom is reflected
\* about that wall to the outside of the rectangle, and its other
\* coordinate and velocity component are kept.
C23_OneWallChosen ==
  \A p \in HitTests :
    LET h == hitOfAtom(beforeAtom(p[1]), p[1], p[2])
        r == atoms.radius[p[1]]
    IN InsideRect(h.xi, h.yi, Inflated(h.before.obstacles, p[2], r, "x", "y"))
         => ReflectedAtWall(h, p[1], Inflated(h.before.obstacles, p[2], r, "x", "y"),
                            Inflated(h.before.obstacles, p[2], r, "xPrev", "yPrev"))

\* C23: an atom at rest is inside the inflated rectangle of an obstacle, and
\* so was its previous position: in the next step no wall is chosen.
C23_NoWallForAtomInside ==
  /\ N = 1 /\ N_obstacles = 1
  /\ <<0, 0>> \in HitTests
  /\ atoms.vx[0] = 0 /\ atoms.vy[0] = 0
  /\ InsideRect(atoms.x[0], atoms.y[0], Inflated(obstacles, 0, atoms.radius[0], "x", "y"))
  /\ InsideRect(atoms.x[0], atoms.y[0],
                Inflated(obstacles, 0, atoms.radius[0], "xPrev", "yPrev"))

\* the wall of obstacle j that hit h of an atom of radius r is on, "none"
\* if the atom is not inside the inflated rectangle
HitWall(h, j, r) ==
  IF InsideRect(h.xi, h.yi, Inflated(h.before.obstacles, j, r, "x", "y"))
    THEN WallOf(h, Inflated(h.before.obstacles, j, r, "xPrev", "yPrev"))
    ELSE "none"

\* the components normal to the wall of the velocities of atom i and of
\* obstacle j, in s (the atoms and obstacles before or after a hit)
NormalV(s, wall, i, j) ==
  IF wall \in {"west", "east"}
    THEN [atom |-> s.atoms.vx[i], obstacle |-> s.obstacles.vx[j]]
    ELSE [atom |-> s.atoms.vy[i], obstacle |-> s.obstacles.vy[j]]

\* v and V, the velocities of masses m and M before a collision in one
\* dimension, and v2 and V2, the velocities after it, are those of an
\* elastic collision (for velocities that the model has as integers), or of
\* a reflection by an immovable body
ElasticOnNormal(m, M, v, V, v2, V2) ==
  IF M = Infinity THEN v2 = -v /\ V2 = V
  ELSE ((v * (m - M) + 2 * M * V) % (m + M) = 0 /\ (V * (M - m) + 2 * m * v) % (m + M) = 0)
         => (/\ m * v2 + M * V2 = m * v + M * V
             /\ m = M => (v2 = V /\ V2 = v))

\* C24: every hit of an atom on a wall of an obstacle in the drift of the
\* next step keeps the sum of the momenta normal to the wall, and exchanges
\* the normal velocities of an atom and an obstacle of the same mass; on an
\* immovable obstacle the normal velocity of the atom changes sign and the
\* obstacle keeps its velocity.
C24_ElasticCollision ==
  \A p \in HitTests :
    LET h == hitOfAtom(beforeAtom(p[1]), p[1], p[2])
        wall == HitWall(hitOfAtom(beforeAtom(p[1]), p[1], p[2]), p[2], atoms.radius[p[1]])
    IN wall # "none"
         => ElasticOnNormal(atoms.mass[p[1]], obstacles.mass[p[2]],
                            NormalV(h.before, wall, p[1], p[2]).atom,
                            NormalV(h.before, wall, p[1], p[2]).obstacle,
                            NormalV(h.after, wall, p[1], p[2]).atom,
                            NormalV(h.after, wall, p[1], p[2]).obstacle)

\* C24: in the next step an atom hits the west walls of two movable
\* obstacles that touch; the first hit has changed its velocity and not its
\* momentum px, from which the second hit computes the velocity of the
\* second obstacle.
C24_SecondHitWithStaleMomentum ==
  /\ N_obstacles = 2
  /\ \E i \in AtomIdx :
       /\ <<i, 1>> \in HitTests
       /\ obstacles.mass[0] # Infinity /\ obstacles.mass[1] # Infinity
       /\ LET h == hitOfAtom(beforeAtom(i), i, 1)
          IN /\ HitWall(h, 1, atoms.radius[i]) = "west"
             /\ h.before.atoms.px[i] # atoms.mass[i] * h.before.atoms.vx[i]
             /\ h.after.obstacles.vx[1] # h.before.atoms.vx[i]

\* the value of the probe of obstacle j on the wall, in obs
ProbeValue(obs, wall, j) ==
  CASE wall = "west" -> obs.wProbeValue[j]
    [] wall = "east" -> obs.eProbeValue[j]
    [] wall = "south" -> obs.sProbeValue[j]
    [] wall = "north" -> obs.nProbeValue[j]

ProbeEnabled(obs, wall, j) ==
  CASE wall = "west" -> obs.westProbe[j] # 0
    [] wall = "east" -> obs.eastProbe[j] # 0
    [] wall = "south" -> obs.southProbe[j] # 0
    [] wall = "north" -> obs.northProbe[j] # 0
    [] OTHER -> FALSE

\* m * (v_before - v_after) with the sign of the wall: taken off the atom
\* on the west and south walls, given to it on the east and north walls
Impulse(wall, m, v, v2) ==
  IF wall \in {"west", "south"} THEN m * (v - v2) ELSE m * (v2 - v)

\* C25: every hit of an atom on a wall of an obstacle in the drift of the
\* next step adds m * (v_before - v_after), with the sign of the wall, to
\* the probe of that wall if it is enabled, and leaves every other probe
\* value of the obstacle as it was.
C25_ProbeGetsImpulse ==
  \A p \in HitTests :
    LET h == hitOfAtom(beforeAtom(p[1]), p[1], p[2])
        wall == HitWall(hitOfAtom(beforeAtom(p[1]), p[1], p[2]), p[2], atoms.radius[p[1]])
    IN \A w \in {"west", "east", "south", "north"} :
         ProbeValue(h.after.obstacles, w, p[2])
           = ProbeValue(h.before.obstacles, w, p[2])
             + (IF w = wall /\ ProbeEnabled(h.before.obstacles, w, p[2])
                  THEN Impulse(w, atoms.mass[p[1]],
                               NormalV(h.before, w, p[1], p[2]).atom,
                               NormalV(h.after, w, p[1], p[2]).atom)
                  ELSE 0)

\* C25: in the next step the east wall of a movable obstacle hits an atom
\* at rest, and its probe gets twice the momentum that the atom gets.
C25_AtomAtRestCountedTwice ==
  /\ N = 1 /\ N_obstacles = 1
  /\ <<0, 0>> \in HitTests
  /\ obstacles.eastProbe[0] # 0 /\ obstacles.mass[0] # Infinity
  /\ LET h == hitOfAtom(beforeAtom(0), 0, 0)
     IN /\ HitWall(h, 0, atoms.radius[0]) = "east"
        /\ h.before.atoms.vx[0] = 0
        /\ h.after.atoms.vx[0] > 0
        /\ h.after.obstacles.eProbeValue[0] - h.before.obstacles.eProbeValue[0]
             = 2 * atoms.mass[0] * h.after.atoms.vx[0]

\* obstacle j lies between the walls
ObstacleBetweenWalls(obs, j) ==
  /\ 0 <= obs.x[j] /\ obs.x[j] <= size[1] - obs.width[j]
  /\ 0 <= obs.y[j] /\ obs.y[j] <= size[2] - obs.height[j]

MovableObstacles == {j \in ObstIdx : j < N_obstacles /\ obstacles.mass[j] # Infinity}

\* C28: a movable obstacle that lay between the walls before an integrate
\* that raised no error, with the viscosity set, lies between them after it.
C28_ObstaclesStayBetweenWalls ==
  [][(IntegrateReturned /\ viscosity # Undefined)
       => \A j \in MovableObstacles :
            ObstacleBetweenWalls(obstacles, j) => ObstacleBetweenWalls(obstacles', j)]_vars

\* C28: an obstacle of width 2 that was at x = 1 with velocity -10 has left
\* the left wall by less than the width of the domain, and was reflected to
\* x = 9, beyond Lx - width = 8.
C28_ReflectedBeyondRightWall ==
  /\ lastCall = "integrate" /\ error = "none" /\ viscosity # Undefined
  /\ \E j \in MovableObstacles :
       /\ obstacles.xPrev[j] = 1 /\ obstacles.vx[j] = 10
       /\ obstacles.x[j] = 9
       /\ obstacles.x[j] > size[1] - obstacles.width[j]

\* the velocities and momenta of the atoms
AtomVelocities(at) == <<at.vx, at.vy, at.px, at.py>>

\* the positions, velocities and probe values of the obstacles
ObstacleMotion(obs) ==
  IF obs = Undefined THEN Undefined
  ELSE <<obs.x, obs.y, obs.vx, obs.vy,
         obs.wProbeValue, obs.eProbeValue, obs.sProbeValue, obs.nProbeValue>>

MinimizeEnergyReturned == lastCall' = "minimizeEnergy" /\ ops' = ops + 1 /\ error' = "none"

\* C29: a minimizeEnergy leaves the velocities and momenta of the atoms, the
\* positions, velocities and probe values of the obstacles, and the time
\* as they were.
C29_MinimizeEnergyKeepsMotion ==
  [][MinimizeEnergyReturned
       => /\ AtomVelocities(atoms') = AtomVelocities(atoms)
          /\ ObstacleMotion(obstacles') = ObstacleMotion(obstacles)
          /\ time' = time]_vars

\* C30: after an integrate that raised no error, with the viscosity never
\* set, no movable obstacle has a NaN position or velocity.
C30_UnsetViscosityIsNoDrag ==
  (lastCall = "integrate" /\ error = "none" /\ viscosity = Undefined)
    => \A j \in MovableObstacles :
         /\ ~IsNaN(obstacles.x[j]) /\ ~IsNaN(obstacles.y[j])
         /\ ~IsNaN(obstacles.vx[j]) /\ ~IsNaN(obstacles.vy[j])

\* C30: an obstacle that moved east, with the viscosity never set, has a
\* NaN position and velocity after an integrate.
C30_MovingObstacleIsNaN ==
  /\ lastCall = "integrate" /\ error = "none" /\ viscosity = Undefined
  /\ \E j \in MovableObstacles :
       /\ obstacles.xPrev[j] = 1
       /\ IsNaN(obstacles.x[j]) /\ IsNaN(obstacles.vx[j])

\* C29: a minimizeEnergy has pushed an atom onto the east wall of the
\* obstacle that was added with velocity 2: the obstacle has velocity 1 and
\* the atom velocity 2, with the momentum 1 of before.
C29_MinimizerMovedObstacle ==
  /\ lastCall = "minimizeEnergy" /\ error = "none"
  /\ N = 2 /\ N_obstacles = 1
  /\ obstacles.eastProbe[0] # 0 /\ obstacles.vx[0] = 1
  /\ atoms.vx[0] = 2 /\ atoms.px[0] = 1

\* the positions that the neighbor list saved at its last rebuild are those
\* of the atoms now (a list that was never rebuilt has saved none)
SavedPositionsAreCurrent ==
  /\ neighborList # Undefined
  /\ N > 0
  /\ \A i \in Atoms : neighborList.x[i] = atoms.x[i] /\ neighborList.y[i] = atoms.y[i]

\* atoms i and j are closer than the neighbor cutoff of their elements
WithinNeighborCutoff(i, j) ==
  4 * SqDist(atoms, i, j) < cutoffNeighborListSquared[atoms.element[i]][atoms.element[j]]

\* C27: after an integrate that raised no error and that left the atoms
\* where the last rebuild of the lists saved them, the Verlet list holds
\* every pair of atoms that no bond joins and that is closer than the
\* neighbor cutoff, whether Lennard-Jones is enabled or not.
C27_RebuildFillsVerletList ==
  (lastCall = "integrate" /\ error = "none" /\ SavedPositionsAreCurrent)
    => \A i, j \in Atoms :
         (i < j /\ ~Joined(i, j) /\ WithinNeighborCutoff(i, j))
           => (<<i, j>> \in neighborList.list \/ <<j, i>> \in neighborList.list)

\* C27: the lists were rebuilt in an integrate made with Lennard-Jones
\* disabled: the positions of two atoms at distance 1 were saved, and the
\* Verlet list is empty.
C27_RebuildWithLJDisabled ==
  /\ lastCall = "integrate" /\ error = "none"
  /\ ~useLennardJonesInteraction
  /\ SavedPositionsAreCurrent
  /\ N = 2 /\ SqDist(atoms, 0, 1) = 1
  /\ WithinNeighborCutoff(0, 1)
  /\ neighborList.list = {}

\* ------------------------------------------------------------ angular bonds
\* Most angular bonds, and most calls of a behaviour of AngularSpec
MaxAngularBonds == 3
MaxAngularOps == 8
\* addAngularBond extends full arrays to N_angularBonds + 10 entries
AngularBondsChunk == 10

AngularBondFields == {"atom1", "atom2", "atom3", "angle", "strength"}

\* createAngularBondsArray(num): arrays.create(num, 0, type) for each array
createAngularBondsArray(num) == [f \in AngularBondFields |-> [k \in 1 .. num |-> 0]]

\* extendArrays(angularBonds, newLength): each array copied into one of the
\* new length, the new entries being 0
extendAngularBonds(ab, newLength) ==
  [f \in AngularBondFields |->
     [k \in 1 .. newLength |-> IF k <= Len(ab[f]) THEN ab[f][k] ELSE 0]]

\* the body of addAngularBond on st = [ab, n], the arrays and N_angularBonds
addAngularBondBody(st, b) ==
  LET grown == IF st.n + 1 > Len(st.ab.atom1)
                 THEN extendAngularBonds(st.ab, st.n + AngularBondsChunk)
                 ELSE st.ab
  IN [ab |-> [f \in AngularBondFields |-> [grown[f] EXCEPT ![st.n + 1] = b[f]]],
      n |-> st.n + 1]

RECURSIVE addAngularBonds(_, _, _)
\* the loop of initializeAngularBonds from its i-th turn
addAngularBonds(st, props, i) ==
  IF i > Len(props) THEN st
  ELSE addAngularBonds(addAngularBondBody(st, props[i]), props, i + 1)

\* addAngularBond(atom1Index, atom2Index, atom3Index, bondAngle, bondStrength);
\* without arrays, angularBonds.atom1 of undefined throws
AddAngularBond(b) ==
  /\ N_angularBonds < MaxAngularBonds
  /\ IF angularBonds = Undefined
       THEN /\ Threw("addAngularBond", "TypeError")
            /\ UNCHANGED angularVars
       ELSE /\ angularBonds' = addAngularBondBody([ab |-> angularBonds, n |-> N_angularBonds], b).ab
            /\ N_angularBonds' = N_angularBonds + 1
            /\ Returned("addAngularBond")
  /\ UNCHANGED <<flagVars, toggleVars, chargeVars, atomVars, elementVars, elementUsed,
                 radialBonds, radialBondMatrix, N_radialBonds, obstacleVars, listVars,
                 forceVars, size, time, snapshot>>

\* initializeAngularBonds(props): new arrays of the length of props, then
\* addAngularBond for each bond of props; N_angularBonds is not reset
InitializeAngularBonds(props) ==
  /\ N_angularBonds + Len(props) <= MaxAngularBonds
  /\ LET st == addAngularBonds([ab |-> createAngularBondsArray(Len(props)),
                                n |-> N_angularBonds], props, 1)
     IN /\ angularBonds' = st.ab
        /\ N_angularBonds' = st.n
  /\ Returned("initializeAngularBonds")
  /\ UNCHANGED <<flagVars, toggleVars, chargeVars, atomVars, elementVars, elementUsed,
                 radialBonds, radialBondMatrix, N_radialBonds, obstacleVars, listVars,
                 forceVars, size, time, snapshot>>

\* the vertex of the bonds and the atoms at the ends of their arms
AngularAtomInputs == {Atom(0, 5, 5, 0, 0, 0), Atom(0, 7, 5, 0, 0, 0), Atom(0, 5, 7, 0, 0, 0)}

AngularBond(atom1, atom2, atom3, angle, strength) ==
  [atom1 |-> atom1, atom2 |-> atom2, atom3 |-> atom3, angle |-> angle, strength |-> strength]

\* a bond at its angle of a quarter turn, and one that wants a half turn
AngularBondInputs == {AngularBond(1, 2, 0, 1, 1), AngularBond(1, 2, 0, 2, 1)}

AngularPropsInputs ==
  {<< >>, <<AngularBond(1, 2, 0, 1, 1)>>,
   <<AngularBond(1, 2, 0, 2, 1), AngularBond(2, 1, 0, 1, 1)>>}

AngularNext ==
  \/ ops < MaxAngularOps /\ InitializeElements(ElementsInput)
  \/ ops < MaxAngularOps /\ CreateAtomsArray(ValidNum)
  \/ ops < MaxAngularOps /\ \E props \in AngularAtomInputs : AddAtom(props)
  \/ ops < MaxAngularOps /\ \E props \in AngularPropsInputs : InitializeAngularBonds(props)
  \/ ops < MaxAngularOps /\ \E b \in AngularBondInputs : AddAngularBond(b)
  \/ ops < MaxAngularOps /\ Integrate(1, 1)

AngularSpec == Init /\ [][AngularNext]_vars

\* the entries of the angular bonds that were added
AddedAngularBonds == 1 .. N_angularBonds

\* atom i is at an end or at the vertex of an added bond with an arm of no length
OnAddedBondWithoutLength(i) ==
  \E s \in AddedAngularBonds :
     /\ s <= Len(angularBonds.atom1)
     /\ i \in {angularBonds.atom1[s], angularBonds.atom2[s], angularBonds.atom3[s]}
     /\ angularBondIsNaN(angularBondGeometry(angularBonds, atoms, s))

\* the atoms have positions, and an acceleration computation can be made
CanComputeAccelerations ==
  /\ neighborList # Undefined
  /\ MassesPositive
  /\ \A i \in Atoms : ~IsNaN(atoms.x[i]) /\ ~IsNaN(atoms.y[i])

\* the accelerations that updateParticlesAccelerations gives the atoms now
AccelerationsNow == updateParticlesAccelerations(Working, N).atoms

\* C26: the entries that the force computation goes through are those of
\* the bonds that were added, and an acceleration computation gives no
\* atom a NaN acceleration that an added bond does not give it.
C26_OnlyAddedAngularBondsApply ==
  /\ angularBondLoop(angularBonds, N_angularBonds) = AddedAngularBonds
  /\ CanComputeAccelerations
       => \A i \in Atoms :
            (IsNaN(AccelerationsNow.ax[i]) \/ IsNaN(AccelerationsNow.ay[i]))
              => OnAddedBondWithoutLength(i)

\* C26: one bond between three atoms at a right angle was added to empty
\* arrays, which addAngularBond extended to ten entries; the first
\* integrate gave atom 0, to which the nine unused entries refer, a NaN
\* acceleration, and threw when the atom got a NaN position.
C26_UnusedEntriesGiveNaN ==
  /\ lastCall = "integrate" /\ error = "Model has diverged!"
  /\ N = 3 /\ N_angularBonds = 1
  /\ Len(angularBonds.atom1) = AngularBondsChunk
  /\ angularBonds.atom3[1] = 0
  /\ atoms.x[1] = 7 /\ atoms.y[1] = 5 /\ atoms.x[2] = 5 /\ atoms.y[2] = 7
  /\ IsNaN(atoms.ax[0]) /\ IsNaN(atoms.x[0])

=============================================================================
